---- MODULE Spec2Model ----
(***************************************************************************)
(* A state-machine model of the expense-tracker ledger pipeline:           *)
(*   - the amount normaliser and the two parser tiers (regex parsers, AI   *)
(*     fallback) behind ParserRegistry.parse;                              *)
(*   - the local store (raw_emails, transactions, duplicate_groups,        *)
(*     sync_state) with its uniqueness and foreign-key rules;              *)
(*   - the sync and reparse commands and the dedup orchestrator;           *)
(*   - the read-only guard of the natural-language query engine.           *)
(* Text is modelled as a sequence of one-character strings so that the     *)
(* regular expressions of the source are computed, not assumed.            *)
(***************************************************************************)
EXTENDS Integers, Sequences, FiniteSets, TLC

VARIABLES
    \* --- amount / toTransaction (pure functions applied to drawn inputs)
    aiEntry,      \* one element of the model's "transactions" array
    aiTx,         \* what toTransaction made of it
    regexText,    \* the text AMOUNT_RE matched in an email (or NoMatch)
    regexTx,      \* what a regex parser made of it
    \* --- parsing pipeline
    email,        \* the raw email handed to ParserRegistry.parse
    aiOut,        \* what the external model process answers for that email
    parseRes,     \* the outcome of ParserRegistry.parse
    mailBatch,    \* the emails handed to parseEmails, each with its model answer
    batchRes,     \* the outcome of parseEmails
    \* --- the local store and what surrounds it
    rawEmails,    \* table raw_emails: rows [id, day]
    transactions, \* table transactions: rows [id, email, amount, merchant, day, ...]
    dupGroups,    \* table duplicate_groups: rows [gid, kept, dup]
    syncState,    \* table sync_state: [lastSync, lastMessageId, total]
    mailbox,      \* the messages on the mail server that match the query
    now,          \* the wall clock, in days
    env,          \* fixed for a run: which syncEmails is built, how after: cuts
    opLog,        \* history: what the last store operation was given and did
    \* --- natural-language query engine
    sql,          \* the statement the model generated, fences removed
    queryRes,     \* what answerQuery / executeQuery did with it
    \* --- one sync run, step by step
    run,          \* where syncCommand stands, and the stages it has completed
    \* --- categorization feedback
    feedback,     \* category_corrections, categories, the last categorization request
    \* --- one call of withRetry, step by step
    retry,        \* the loop counter, what each invocation did, the delays slept
    \* --- startup migrations
    mig,          \* the migration files, the schema, the migrations table, the last run
    \* --- one call of fetchMessages, step by step
    fetch         \* the loop index, every request's state, the batches issued

amountVars == <<aiEntry, aiTx, regexText, regexTx>>
parseVars  == <<email, aiOut, parseRes, mailBatch, batchRes>>
storeVars  == <<rawEmails, transactions, dupGroups, syncState, mailbox, now, env, opLog>>
queryVars  == <<sql, queryRes>>
vars == <<aiEntry, aiTx, regexText, regexTx,
          email, aiOut, parseRes, mailBatch, batchRes,
          rawEmails, transactions, dupGroups, syncState, mailbox, now, env, opLog,
          sql, queryRes, run, feedback, retry, mig, fetch>>

----------------------------------------------------------------------------
(* Generic helpers on sequences                                            *)

Range(s) == {s[i] : i \in DOMAIN s}

RECURSIVE SeqsUpTo(_, _)
SeqsUpTo(S, n) ==
    IF n = 0 THEN {<<>>}
    ELSE LET shorter == SeqsUpTo(S, n - 1)
         IN  shorter \cup {Append(s, x) : s \in {t \in shorter : Len(t) = n - 1}, x \in S}

Abs(n) == IF n < 0 THEN -n ELSE n

----------------------------------------------------------------------------
(* Characters.  "rupee" stands for the one-character rupee sign.           *)

Digits == {"0", "1", "2", "3", "4", "5", "6", "7", "8", "9"}

DigitVal(c) ==
    CASE c = "0" -> 0 [] c = "1" -> 1 [] c = "2" -> 2 [] c = "3" -> 3
      [] c = "4" -> 4 [] c = "5" -> 5 [] c = "6" -> 6 [] c = "7" -> 7
      [] c = "8" -> 8 [] c = "9" -> 9 [] OTHER -> 0

\* String.prototype.toUpperCase on the letters the model uses
UpperOf(c) ==
    CASE c = "a" -> "A" [] c = "b" -> "B" [] c = "c" -> "C" [] c = "d" -> "D"
      [] c = "e" -> "E" [] c = "f" -> "F" [] c = "g" -> "G" [] c = "h" -> "H"
      [] c = "i" -> "I" [] c = "j" -> "J" [] c = "k" -> "K" [] c = "l" -> "L" [] c = "m" -> "M"
      [] c = "n" -> "N" [] c = "o" -> "O" [] c = "p" -> "P" [] c = "q" -> "Q"
      [] c = "r" -> "R"
      [] c = "s" -> "S" [] c = "t" -> "T" [] c = "u" -> "U" [] c = "v" -> "V"
      [] c = "w" -> "W" [] c = "x" -> "X" [] c = "y" -> "Y" [] c = "z" -> "Z"
      [] OTHER -> c

ToUpperCase(s) == [i \in DOMAIN s |-> UpperOf(s[i])]

\* \s of the regular expressions, on the characters the model uses
IsSpace(c) == c \in {" ", "\n"}

RECURSIVE TrimLeft(_)
TrimLeft(s) ==
    IF s = <<>> THEN s
    ELSE IF IsSpace(Head(s)) THEN TrimLeft(Tail(s)) ELSE s

RECURSIVE TrimRight(_)
TrimRight(s) ==
    IF s = <<>> THEN s
    ELSE IF IsSpace(s[Len(s)]) THEN TrimRight(SubSeq(s, 1, Len(s) - 1)) ELSE s

\* String.prototype.trim
Trim(s) == TrimRight(TrimLeft(s))

\* s starts with p, ignoring case (p is upper case)
StartsWithCI(s, p) ==
    /\ Len(s) >= Len(p)
    /\ \A i \in DOMAIN p : UpperOf(s[i]) = p[i]

EndsWithCI(s, p) ==
    /\ Len(s) >= Len(p)
    /\ \A i \in DOMAIN p : UpperOf(s[Len(s) - Len(p) + i]) = p[i]

----------------------------------------------------------------------------
(* Numbers: a JavaScript number is finite (v counts ten-thousandths),      *)
(* +Infinity, -Infinity or NaN; Null is the null the normaliser returns.   *)

Scale == 10 * 10 * 10 * 10

Fin(n) == [k |-> "fin", v |-> n]
PosInf == [k |-> "inf", v |-> 0]
NegInf == [k |-> "ninf", v |-> 0]
NaN    == [k |-> "nan", v |-> 0]
Null   == [k |-> "null", v |-> 0]

\* x > 0 on JavaScript numbers
GreaterThanZero(x) == x.k = "inf" \/ (x.k = "fin" /\ x.v > 0)

RECURSIVE IntOf(_)
IntOf(ds) ==
    IF ds = <<>> THEN 0
    ELSE IntOf(SubSeq(ds, 1, Len(ds) - 1)) * 10 + DigitVal(ds[Len(ds)])

RECURSIVE FracOf(_, _)
FracOf(ds, unit) ==
    IF ds = <<>> THEN 0
    ELSE DigitVal(Head(ds)) * (unit \div 10) + FracOf(Tail(ds), unit \div 10)

InfinityLiteral == <<"I", "n", "f", "i", "n", "i", "t", "y">>

IsDecimalLiteral(b) ==
    /\ b # <<>>
    /\ \A i \in DOMAIN b : b[i] \in Digits \cup {"."}
    /\ Cardinality({i \in DOMAIN b : b[i] = "."}) <= 1
    /\ \E i \in DOMAIN b : b[i] \in Digits

DecimalValue(b) ==
    LET dots == {i \in DOMAIN b : b[i] = "."}
        p    == IF dots = {} THEN Len(b) + 1 ELSE CHOOSE i \in dots : TRUE
    IN  IntOf(SubSeq(b, 1, p - 1)) * Scale + FracOf(SubSeq(b, p + 1, Len(b)), Scale)

\* Number(cleaned) for a non-empty string without white space, over the
\* characters the model draws (no exponent, hex, octal or binary letters)
JsNumber(s) ==
    LET signed == Head(s) \in {"-", "+"}
        body   == IF signed THEN Tail(s) ELSE s
        sgn    == IF Head(s) = "-" THEN -1 ELSE 1
    IN  IF body = InfinityLiteral THEN (IF sgn = -1 THEN NegInf ELSE PosInf)
        ELSE IF IsDecimalLiteral(body) THEN Fin(sgn * DecimalValue(body))
        ELSE NaN

----------------------------------------------------------------------------
(* normalizeAmount                                                         *)

\* length of (?:Rs\.?|INR|rupee) at the start of s, 0 when none
MarkerLenAtStart(s) ==
    IF StartsWithCI(s, <<"R", "S", ".">>) THEN 3
    ELSE IF StartsWithCI(s, <<"R", "S">>) THEN 2
    ELSE IF StartsWithCI(s, <<"I", "N", "R">>) THEN 3
    ELSE IF StartsWithCI(s, <<"rupee">>) THEN 1
    ELSE 0

\* length of (?:Rs\.?|INR|rupee) at the end of s, 0 when none
MarkerLenAtEnd(s) ==
    IF EndsWithCI(s, <<"R", "S", ".">>) THEN 3
    ELSE IF EndsWithCI(s, <<"R", "S">>) THEN 2
    ELSE IF EndsWithCI(s, <<"I", "N", "R">>) THEN 3
    ELSE IF EndsWithCI(s, <<"rupee">>) THEN 1
    ELSE 0

\* cleaned.replace(CURRENCY_PREFIX, "")
StripCurrencyPrefix(s) ==
    LET t == TrimLeft(s)
        m == MarkerLenAtStart(t)
    IN  IF m = 0 THEN s ELSE TrimLeft(SubSeq(t, m + 1, Len(t)))

\* cleaned.replace(CURRENCY_SUFFIX, "")
StripCurrencySuffix(s) ==
    LET t == TrimRight(s)
        m == MarkerLenAtEnd(t)
    IN  IF m = 0 THEN s ELSE TrimRight(SubSeq(t, 1, Len(t) - m))

\* cleaned.replace(COMMAS, "").replace(WHITESPACE, "")
RemoveCommasAndSpaces(s) == SelectSeq(s, LAMBDA c : c # "," /\ ~IsSpace(c))

NormalizeAmount(raw) ==
    IF raw = <<>> THEN Null
    ELSE LET cleaned == RemoveCommasAndSpaces(
                            StripCurrencySuffix(StripCurrencyPrefix(Trim(raw))))
         IN  IF cleaned = <<>> THEN Null
             ELSE LET num == JsNumber(cleaned)
                  IN  IF num.k # "fin" THEN Null ELSE Fin(Abs(num.v))

----------------------------------------------------------------------------
(* Transactions as the parsers build them                                  *)

\* confidence: undefined
NoConfidence == 0 - 1

NoTx == [amount |-> Null, direction |-> "", type |-> "", merchant |-> <<>>,
         source |-> "", confidence |-> NoConfidence, needsReview |-> FALSE]

VALID_TYPES == {"upi", "credit_card", "bank_transfer", "sip", "loan"}
VALID_DIRECTIONS == {"debit", "credit"}

\* confidence < 0.7, confidences counted in hundredths
ReviewThresholdPct == 70

UnknownMerchant == <<"U", "n", "k", "n", "o", "w", "n">>

----------------------------------------------------------------------------
(* The five regex parsers: upi, credit_card, bank_transfer, sip, loan.     *)
(* Each matches the same AMOUNT_RE against the same subject+body text.     *)

NoMatch == <<>>

\* s is a whole match of /(?:Rs\.?|INR|rupee)\s*[\d,]+(?:\.\d{1,2})?/i
MatchesAmountRE(s) ==
    LET m    == MarkerLenAtStart(s)
        rest == TrimLeft(SubSeq(s, m + 1, Len(s)))
        stop == {i \in DOMAIN rest : rest[i] \notin Digits \cup {","}}
        n    == IF stop = {} THEN Len(rest)
                ELSE (CHOOSE i \in stop : \A j \in stop : i <= j) - 1
        tail == SubSeq(rest, n + 1, Len(rest))
    IN  /\ m > 0
        /\ n >= 1
        /\ \/ tail = <<>>
           \/ /\ Len(tail) \in {2, 3}
              /\ tail[1] = "."
              /\ \A i \in 2..Len(tail) : tail[i] \in Digits

RegexMerchant == <<"S", "h", "o", "p">>

\* upiParser.parse and its four siblings: the amount part is the same code
\* in all five; kind is the transaction type the parser stamps
RegexParserParse(kind, text) ==
    IF text = NoMatch THEN [st |-> "null", txs |-> <<>>]
    ELSE LET amount == NormalizeAmount(text)
         IN  IF amount = Null \/ amount = Fin(0)
             THEN [st |-> "null", txs |-> <<>>]
             ELSE [st |-> "list",
                   txs |-> << [amount |-> amount,
                               direction |-> "debit",
                               type |-> kind,
                               merchant |-> RegexMerchant,
                               source |-> "regex",
                               confidence |-> NoConfidence,
                               needsReview |-> FALSE] >>]

----------------------------------------------------------------------------
(* AI fallback parser: toTransaction and createAiFallbackParser().parse     *)

\* the confidence taken as the model gave it
ConfidenceAsGiven(c) ==
    IF c.k = "inf" THEN 1000
    ELSE IF c.k = "ninf" THEN 0 - 1000
    ELSE c.v

\* Math.max(0, Math.min(1, c)), c a finite number or +-Infinity
ClampConfidence(c) ==
    IF c.k = "inf" THEN 100
    ELSE IF c.k = "ninf" THEN 0
    ELSE IF c.v > 100 THEN 100
    ELSE IF c.v < 0 THEN 0
    ELSE c.v

\* ai is [shape, amount, merchant, account, direction, type, confidence]:
\*   shape      "object" | "null" (a null array element) | "primitive"
\*   amount     [t: "num" | "str" | "other", n: number, s: text]
\*   merchant   [t: "str" | "absent" | "num", s: text]
\*   account    "str" | "absent" | "num"
\*   confidence [t: "num" | "absent", c: number in hundredths]
ToTransaction(ai) ==
    IF ai.shape = "null" THEN [st |-> "threw", tx |-> NoTx]          \* ai.amount of null
    ELSE IF ai.shape = "primitive" THEN [st |-> "null", tx |-> NoTx] \* amount undefined
    ELSE
    LET normalized == NormalizeAmount(ai.amount.s)
        amountOk   == \/ ai.amount.t = "str" /\ normalized # Null
                      \/ ai.amount.t = "num" /\ GreaterThanZero(ai.amount.n)
        amount     == IF ai.amount.t = "str" THEN normalized ELSE ai.amount.n
        direction  == IF ai.direction \in VALID_DIRECTIONS THEN ai.direction ELSE "debit"
        type       == IF ai.type \in VALID_TYPES THEN ai.type ELSE "bank_transfer"
        \* (ai.merchant || "Unknown").trim()
        merchant   == IF ai.merchant.t = "absent" \/ ai.merchant.s = <<>>
                      THEN UnknownMerchant
                      ELSE Trim(ai.merchant.s)
        confidence == IF ai.confidence.t = "num"
                      THEN ClampConfidence(ai.confidence.c)
                      ELSE 50
    IN  IF ~amountOk THEN [st |-> "null", tx |-> NoTx]
        ELSE IF ai.merchant.t = "num" THEN [st |-> "threw", tx |-> NoTx]   \* no trim on a number
        ELSE IF merchant = <<>> THEN [st |-> "null", tx |-> NoTx]
        ELSE IF ai.account = "num" THEN [st |-> "threw", tx |-> NoTx]      \* (ai.account || "").trim()
        ELSE [st |-> "tx",
              tx |-> [amount |-> amount,
                      direction |-> direction,
                      type |-> type,
                      merchant |-> merchant,
                      source |-> "ai",
                      confidence |-> confidence,
                      needsReview |-> confidence < ReviewThresholdPct]]

\* transactions.push(tx) when toTransaction returned one; a throw ends parse()
PushConverted(one, rest) ==
    IF one.st = "threw" THEN [st |-> "threw", txs |-> <<>>]
    ELSE IF rest.st = "threw" THEN rest
    ELSE IF one.st = "tx" THEN [st |-> "list", txs |-> <<one.tx>> \o rest.txs]
    ELSE rest

\* the loop of parse() over aiResponse.transactions
RECURSIVE ConvertEntries(_)
ConvertEntries(entries) ==
    IF entries = <<>> THEN [st |-> "list", txs |-> <<>>]
    ELSE PushConverted(ToTransaction(Head(entries)), ConvertEntries(Tail(entries)))

\* return transactions.length > 0 ? transactions : null
ListOrNull(conv) ==
    IF conv.st = "threw" \/ Len(conv.txs) > 0 THEN conv
    ELSE [st |-> "null", txs |-> <<>>]

\* out is [kind, entries]: kind says what the external process produced
\*   "spawn_throws" | "exit_nonzero" | "empty" | "not_json" | "wrong_shape" | "json"
\* (a wrong shape is validated into an empty transactions array)
AiFallbackParse(out) ==
    IF out.kind \in {"spawn_throws", "exit_nonzero", "empty", "not_json"}
    THEN [st |-> "null", txs |-> <<>>]
    ELSE IF out.kind = "wrong_shape" \/ Len(out.entries) = 0
    THEN [st |-> "null", txs |-> <<>>]
    ELSE ListOrNull(ConvertEntries(out.entries))

\* canParse of the AI fallback parser
AiFallbackCanParse(e) == TRUE

\* createClaudeCli().runJson on the same process output: run() turns a
\* throwing spawn or a non-zero exit into success = false, an empty output
\* and text that is no JSON (with or without code fences) give null, any
\* JSON value is handed back as it is
RunJson(out) ==
    IF out.kind \in {"spawn_throws", "exit_nonzero"} THEN [st |-> "null"]
    ELSE IF out.kind = "empty" THEN [st |-> "null"]
    ELSE IF out.kind = "not_json" THEN [st |-> "null"]
    ELSE [st |-> "value"]

----------------------------------------------------------------------------
(* ParserRegistry as createParserPipeline wires it                         *)

Parsers == <<"upi", "credit_card", "bank_transfer", "sip", "loan">>
HasFallback == TRUE

\* canParse of a regex parser: its subject/body patterns match the email
CanParse(p, e) == p \in e.claims

ParserParse(p, e) == RegexParserParse(p, e.amountText)

\* if (result && result.length > 0) return result
NonEmptyList(r) == r.st = "list" /\ Len(r.txs) > 0

\* what ParserRegistry.parse does with the fallback's answer r
FallbackOutcome(r, invoked) ==
    IF r.st = "threw" THEN [st |-> "threw", txs |-> <<>>, invoked |-> invoked]
    ELSE IF NonEmptyList(r) THEN [st |-> "returned", txs |-> r.txs, invoked |-> invoked]
    ELSE [st |-> "returned", txs |-> <<>>, invoked |-> invoked]

\* the fallback branch of ParserRegistry.parse
RegistryFallback(e, out, invoked) ==
    IF HasFallback /\ AiFallbackCanParse(e)
    THEN FallbackOutcome(AiFallbackParse(out), Append(invoked, "ai"))
    ELSE [st |-> "returned", txs |-> <<>>, invoked |-> invoked]

\* a registry that takes the answer of the first parser claiming the email,
\* whatever it is
RECURSIVE RegistryLoopFirstClaimWins(_, _, _, _)
RegistryLoopFirstClaimWins(i, e, out, invoked) ==
    IF i > Len(Parsers) THEN RegistryFallback(e, out, invoked)
    ELSE IF CanParse(Parsers[i], e)
    THEN [st |-> "returned", txs |-> ParserParse(Parsers[i], e).txs,
          invoked |-> Append(invoked, Parsers[i])]
    ELSE RegistryLoopFirstClaimWins(i + 1, e, out, invoked)

\* a registry that goes through its parsers from the last registered one
RECURSIVE RegistryLoopReversed(_, _, _, _)
RegistryLoopReversed(i, e, out, invoked) ==
    IF i > Len(Parsers) THEN RegistryFallback(e, out, invoked)
    ELSE IF CanParse(Parsers[Len(Parsers) + 1 - i], e)
            /\ NonEmptyList(ParserParse(Parsers[Len(Parsers) + 1 - i], e))
    THEN [st |-> "returned", txs |-> ParserParse(Parsers[Len(Parsers) + 1 - i], e).txs,
          invoked |-> Append(invoked, Parsers[Len(Parsers) + 1 - i])]
    ELSE RegistryLoopReversed(i + 1, e, out,
                      IF CanParse(Parsers[Len(Parsers) + 1 - i], e)
                      THEN Append(invoked, Parsers[Len(Parsers) + 1 - i])
                      ELSE invoked)

\* the for loop of ParserRegistry.parse from parser number i on
RECURSIVE RegistryLoop(_, _, _, _)
RegistryLoop(i, e, out, invoked) ==
    IF i > Len(Parsers) THEN RegistryFallback(e, out, invoked)
    ELSE IF CanParse(Parsers[i], e) /\ NonEmptyList(ParserParse(Parsers[i], e))
    THEN [st |-> "returned", txs |-> ParserParse(Parsers[i], e).txs,
          invoked |-> Append(invoked, Parsers[i])]
    ELSE RegistryLoop(i + 1, e, out,
                      IF CanParse(Parsers[i], e) THEN Append(invoked, Parsers[i])
                      ELSE invoked)

\* ParserRegistry.parse(email); out is what the model process would answer
RegistryParse(e, out) == RegistryLoop(1, e, out, <<>>)

\* all.push(...txs) of parseEmails; a throw of parse ends parseEmails
PushAll(one, rest) ==
    IF one.st = "threw" THEN [st |-> "threw", txs |-> <<>>]
    ELSE IF rest.st = "threw" THEN rest
    ELSE [st |-> "returned", txs |-> one.txs \o rest.txs]

\* parseEmails(pipeline, emails): batch is a sequence of [email, out]
RECURSIVE ParseEmails(_)
ParseEmails(batch) ==
    IF batch = <<>> THEN [st |-> "returned", txs |-> <<>>]
    ELSE PushAll(RegistryParse(Head(batch).email, Head(batch).out),
                 ParseEmails(Tail(batch)))

----------------------------------------------------------------------------
(* The local store: raw_emails, transactions, duplicate_groups             *)

RawIds(raw) == {r.id : r \in raw}

\* INSERT OR IGNORE INTO raw_emails: message_id is the primary key
InsertRawEmail(raw, e) ==
    IF e.id \in RawIds(raw) THEN raw ELSE raw \cup {e}

\* insertRawEmails / insertRawEmailsWithIds: the loop inside db.transaction
RECURSIVE InsertRawEmails(_, _)
InsertRawEmails(raw, emails) ==
    IF emails = <<>> THEN raw
    ELSE InsertRawEmails(InsertRawEmail(raw, Head(emails)), Tail(emails))

\* UNIQUE(email_message_id, amount, merchant, date)
TxKey(t) == <<t.email, t.amount, t.merchant, t.day>>

\* the row collides with a stored one: same primary key or same composite key
Collides(txs, t) == \E u \in txs : u.id = t.id \/ TxKey(u) = TxKey(t)

\* foreign keys are never enforced
ForeignKeysOff(raw, t) == TRUE

\* email_message_id REFERENCES raw_emails(message_id), PRAGMA foreign_keys = ON
ForeignKeyOk(raw, t) == t.email \in RawIds(raw)

\* one run of INSERT_SQL that stores the row whatever is already there
InsertRowBlindly(raw, txs, t) ==
    IF ~ForeignKeyOk(raw, t) THEN [st |-> "threw", txs |-> txs, n |-> 0]
    ELSE [st |-> "ok", txs |-> txs \cup {t}, n |-> 1]

\* one run of INSERT_SQL (INSERT OR IGNORE): n is result.changes
InsertRow(raw, txs, t) ==
    IF Collides(txs, t) THEN [st |-> "ok", txs |-> txs, n |-> 0]
    ELSE IF ~ForeignKeyOk(raw, t) THEN [st |-> "threw", txs |-> txs, n |-> 0]
    ELSE [st |-> "ok", txs |-> txs \cup {t}, n |-> 1]

\* the loop of insertTransactions; acc is [st, txs, n] so far
RECURSIVE InsertLoop(_, _, _)
InsertLoop(raw, acc, batch) ==
    IF batch = <<>> \/ acc.st = "threw" THEN acc
    ELSE InsertLoop(raw,
                    [InsertRow(raw, acc.txs, Head(batch)) EXCEPT !.n = @ + acc.n],
                    Tail(batch))

\* db.transaction: a throw inside rolls every row of the batch back
Committed(txs, res) ==
    IF res.st = "threw" THEN [st |-> "threw", txs |-> txs, n |-> 0] ELSE res

\* insertTransactions(txs)
InsertTransactions(raw, txs, batch) ==
    Committed(txs, InsertLoop(raw, [st |-> "ok", txs |-> txs, n |-> 0], batch))

\* the rows of other tables that reference a transaction
Referenced(groups, id) == \E g \in groups : g.kept = id \/ g.dup = id

\* updateTransactionReview(id, flag)
UpdateTransactionReview(txs, id, flag) ==
    {IF t.id = id THEN [t EXCEPT !.needsReview = flag] ELSE t : t \in txs}

FlagForReview(txs, id) == UpdateTransactionReview(txs, id, TRUE)
ResolveReview(txs, id) == UpdateTransactionReview(txs, id, FALSE)

----------------------------------------------------------------------------
(* Dedup: candidates, confirmation, duplicate_groups                       *)

DateToleranceDays == 1

\* the ON clause of the candidate query
IsCandidate(t1, t2) ==
    /\ t1.amount = t2.amount
    /\ t1.direction = t2.direction
    /\ t1.id < t2.id
    /\ t1.email # t2.email
    /\ Abs(t1.day - t2.day) <= DateToleranceDays

\* findCandidates(txIds): pairs <<txId1, txId2>>; no ids means every pair
FindCandidates(txs, ids) ==
    {<<t1.id, t2.id>> : <<t1, t2>> \in
        {p \in txs \X txs : /\ IsCandidate(p[1], p[2])
                            /\ (ids = {} \/ p[1].id \in ids \/ p[2].id \in ids)}}

\* confirmDuplicates: verdict[p] is "dup", "not", or "skip" when the model
\* gave no usable answer for the pair; the confirmed pairs are those with "dup"
Verdicts == {"dup", "not", "skip"}

NextGid(groups) ==
    IF groups = {} THEN 1
    ELSE 1 + CHOOSE n \in {g.gid : g \in groups} : \A g \in groups : g.gid <= n

\* an insert into duplicate_groups without any uniqueness rule
MarkAsDuplicateNoUnique(groups, dup, kept) ==
    groups \cup {[gid |-> NextGid(groups), kept |-> kept, dup |-> dup]}

\* markAsDuplicate: INSERT OR IGNORE under UNIQUE(duplicate_transaction_id)
MarkAsDuplicate(groups, dup, kept) ==
    IF \E g \in groups : g.dup = dup THEN groups
    ELSE groups \cup {[gid |-> NextGid(groups), kept |-> kept, dup |-> dup]}

\* getDuplicatesFor(kept)
GetDuplicatesFor(groups, kept) == {g \in groups : g.kept = kept}

\* a loop body that records every confirmed pair again
RecordAlways(acc, pair) ==
    [groups |-> MarkAsDuplicateNoUnique(acc.groups, pair[2], pair[1]),
     txs    |-> FlagForReview(acc.txs, pair[2]),
     n      |-> acc.n + 1]

\* the body of the loop over confirmations, for a confirmed pair:
\* kept = txId1, dup = txId2; acc is [groups, txs, n]
RecordConfirmed(acc, pair) ==
    IF \E g \in GetDuplicatesFor(acc.groups, pair[1]) : g.dup = pair[2] THEN acc
    ELSE [groups |-> MarkAsDuplicate(acc.groups, pair[2], pair[1]),
          txs    |-> FlagForReview(acc.txs, pair[2]),
          n      |-> acc.n + 1]

RECURSIVE RecordLoop(_, _, _)
RecordLoop(acc, order, verdict) ==
    IF order = <<>> THEN acc
    ELSE RecordLoop(IF verdict[Head(order)] = "dup"
                    THEN RecordConfirmed(acc, Head(order)) ELSE acc,
                    Tail(order), verdict)

\* the sequences that list every element of S once
Orderings(S) ==
    {o \in SeqsUpTo(S, Cardinality(S)) : Len(o) = Cardinality(S) /\ Range(o) = S}

\* findAndFlagDuplicates(cli, txIds): order is the order in which the query
\* returned the candidate pairs
FindAndFlagDuplicates(groups, txs, order, verdict) ==
    RecordLoop([groups |-> groups, txs |-> txs, n |-> 0], order, verdict)

----------------------------------------------------------------------------
(* Inputs of the amount specification                                      *)

MaxAmountLen == 3

AmountChars == {"rupee", " ", ",", "-", ".", "0", "5", "a"}

SampleAmountTexts ==
    { <<"R", "s", ".", " ", "1", ",", "5", "0", ",", "0", "0", "0", ".", "0", "0">>,
      <<"I", "N", "R", " ", "1", "0", "0", "0">>,
      <<"5", "0", "0", " ", "I", "N", "R">>,
      <<"r", "s", "5", "0", "0">>,
      <<"R", "s", ".", "0">>,
      <<"R", "s", ".", "0", ".", "0", "0">>,
      <<"R", "s", ".", " ", "-", "5", "0", "0">>,
      <<"-", "5", "0", "0">>,
      <<"0", ".", "0", "0">>,
      <<"1", "2", ".", "5">>,
      <<"I", "n", "f", "i", "n", "i", "t", "y">>,
      <<"a", "b", "c">>,
      <<"R", "s", ".">> }

AmountTexts == SeqsUpTo(AmountChars, MaxAmountLen) \cup SampleAmountTexts

\* what AMOUNT_RE can have matched in an email
RegexAmountTexts == {s \in AmountTexts : MatchesAmountRE(s)}

\* JSON numbers: 1e999 parses to Infinity, -1e999 to -Infinity, never NaN
JsonNumbers == {Fin(0 - 5 * Scale), Fin(0), Fin(1), Fin(100 * Scale), PosInf, NegInf}

AiAmounts ==
    {[t |-> "num", n |-> x, s |-> <<>>] : x \in JsonNumbers}
    \cup {[t |-> "str", n |-> Fin(0), s |-> x] : x \in AmountTexts}
    \cup {[t |-> "other", n |-> Fin(0), s |-> <<>>]}

AiMerchants ==
    { [t |-> "str", s |-> <<" ", "S", "h", "o", "p", " ">>],
      [t |-> "str", s |-> <<" ">>],
      [t |-> "str", s |-> <<>>],
      [t |-> "absent", s |-> <<>>],
      [t |-> "num", s |-> <<>>] }

AiConfidences ==
    {[t |-> "absent", c |-> Fin(0)], [t |-> "other", c |-> Fin(0)]}
    \cup {[t |-> "num", c |-> x] :
            x \in {Fin(0 - 50), Fin(0), Fin(50), Fin(69), Fin(70), Fin(100),
                   Fin(150), PosInf, NegInf}}

GoodAmount == [t |-> "num", n |-> Fin(100 * Scale), s |-> <<>>]
GoodMerchant == [t |-> "str", s |-> <<" ", "S", "h", "o", "p", " ">>]
GoodConfidence == [t |-> "num", c |-> Fin(100 - 10)]

Entry(a, m, acc, d, ty, c) ==
    [shape |-> "object", amount |-> a, merchant |-> m, account |-> acc,
     direction |-> d, type |-> ty, confidence |-> c]

GoodEntry == Entry(GoodAmount, GoodMerchant, "str", "debit", "upi", GoodConfidence)

NoEntry == [GoodEntry EXCEPT !.shape = "none"]

\* every amount with the other fields good, and every combination of the
\* other fields with a few amounts
AiEntries ==
    {Entry(a, GoodMerchant, "str", "debit", "upi", GoodConfidence) : a \in AiAmounts}
    \cup {Entry(a, m, "str", "debit", "upi", c) :
            a \in {GoodAmount, [t |-> "str", n |-> Fin(0), s |-> <<"0">>]},
            m \in AiMerchants, c \in AiConfidences}
    \cup {Entry(GoodAmount, m, acc, d, ty, GoodConfidence) :
            m \in AiMerchants, acc \in {"str", "absent", "num"},
            d \in {"debit", "credit", "refund"}, ty \in {"sip", "wallet"}}
    \cup {[GoodEntry EXCEPT !.shape = "null"], [GoodEntry EXCEPT !.shape = "primitive"]}

----------------------------------------------------------------------------
(* Inputs of the parsing specification                                     *)

MaxAiEntries == 2
MaxEmails == 2

NoEmail == [claims |-> {}, amountText |-> NoMatch]
NoOut == [kind |-> "none", entries |-> <<>>]

EmailAmountTexts ==
    { NoMatch,
      <<"R", "s", ".", "5", "0", "0">>,
      <<"R", "s", ".", "0", ".", "0", "0">> }

Emails == [claims : SUBSET Range(Parsers), amountText : EmailAmountTexts]

\* elements the model may put in its "transactions" array
CuratedEntries ==
    { GoodEntry,
      [GoodEntry EXCEPT !.amount = [t |-> "num", n |-> Fin(0), s |-> <<>>]],
      [GoodEntry EXCEPT !.amount = [t |-> "str", n |-> Fin(0), s |-> <<"0">>]],
      [GoodEntry EXCEPT !.merchant = [t |-> "num", s |-> <<>>]],
      [GoodEntry EXCEPT !.confidence = [t |-> "absent", c |-> Fin(0)]],
      [GoodEntry EXCEPT !.shape = "null"] }

AiOutputs ==
    {[kind |-> k, entries |-> <<>>] :
        k \in {"spawn_throws", "exit_nonzero", "empty", "not_json", "wrong_shape"}}
    \cup {[kind |-> "json", entries |-> es] : es \in SeqsUpTo(CuratedEntries, MaxAiEntries)}

\* emails of a parseEmails batch, each with the answer the model would give
CuratedMail ==
    { [email |-> [claims |-> {"upi"}, amountText |-> <<"R", "s", ".", "5", "0", "0">>],
       out   |-> [kind |-> "empty", entries |-> <<>>]],
      [email |-> [claims |-> {}, amountText |-> NoMatch],
       out   |-> [kind |-> "json", entries |-> <<GoodEntry>>]],
      [email |-> [claims |-> {"sip"}, amountText |-> NoMatch],
       out   |-> [kind |-> "not_json", entries |-> <<>>]],
      [email |-> [claims |-> {}, amountText |-> NoMatch],
       out   |-> [kind |-> "json",
                  entries |-> <<[GoodEntry EXCEPT !.merchant = [t |-> "num", s |-> <<>>]]>>]] }

----------------------------------------------------------------------------
(* The amount specification: inputs are drawn, then the converters run     *)

NotRun == [st |-> "none", tx |-> NoTx]
NotParsed == [st |-> "none", txs |-> <<>>]
NoRegistryResult == [st |-> "none", txs |-> <<>>, invoked |-> <<>>]

AmountIdle ==
    /\ aiEntry = NoEntry
    /\ aiTx = NotRun
    /\ regexText = NoMatch
    /\ regexTx = NotParsed

ParseIdle ==
    /\ email = NoEmail
    /\ aiOut = NoOut
    /\ parseRes = NoRegistryResult
    /\ mailBatch = <<>>
    /\ batchRes = NotParsed

NoQuery == [st |-> "none", reached |-> FALSE, executed |-> FALSE]

QueryIdle ==
    /\ sql = <<>>
    /\ queryRes = NoQuery

\* a run of syncCommand: pc is the step it is at, stages the stages it has
\* completed, in order; the other fields are what the run meets
NoRun ==
    [pc |-> "idle", stages |-> <<>>, startedListing |-> 0, stamp |-> 0,
     listed |-> 0, fresh |-> 0, parsed |-> 0,
     skip |-> FALSE, cli |-> FALSE, fails |-> "none"]

RunIdle == run = NoRun

\* no categorization request yet
NoRequest == [kind |-> "none", merchants |-> {}, rows |-> {}, owed |-> {}]

\* corrections: the rows of category_corrections, the row id is the index;
\* category: the category of each stored transaction; owed: for a merchant,
\* the correction row recorded since the last request for that merchant
NoFeedback ==
    [corrections |-> <<>>, category |-> <<>>, owed |-> <<>>,
     request |-> NoRequest, last |-> "none"]

FeedbackIdle == feedback = NoFeedback

\* no call of withRetry is under way
NoRetry ==
    [pc |-> "idle", maxRetries |-> 0, attempt |-> 0, outcomes |-> <<>>,
     delays |-> <<>>, surfaced |-> <<>>]

RetryIdle == retry = NoRetry

\* no migration file, an empty database
NoMigrationRun ==
    [ran |-> FALSE, threw |-> FALSE, applied |-> <<>>, pending |-> {},
     schemaSame |-> TRUE, recordedSame |-> TRUE]

NoMig == [files |-> <<>>, schema |-> {}, recorded |-> <<>>, last |-> NoMigrationRun]

MigIdle == mig = NoMig

\* no call of fetchMessages is under way
NoFetch ==
    [pc |-> "idle", n |-> 0, batchSize |-> 1, i |-> 0, req |-> <<>>,
     attempt |-> <<>>, batches |-> <<>>, results |-> 0]

FetchIdle == fetch = NoFetch

NoLog ==
    [op |-> "none", ret |-> 0, threw |-> FALSE, repeat |-> FALSE, arg |-> <<>>,
     rawSame |-> TRUE, rawKept |-> TRUE, txSame |-> TRUE, txKept |-> TRUE,
     txAdded |-> 0, size |-> 0, onlyBatch |-> TRUE, covered |-> TRUE,
     groupsAdded |-> 0, rawAdded |-> 0, totalAdded |-> 0,
     txUntouched |-> TRUE, addedForMissing |-> TRUE,
     complete |-> TRUE, parsed |-> {}]

NeverSynced == [lastSync |-> 0, lastMessageId |-> "", total |-> 0]

StoreIdle ==
    /\ rawEmails = {}
    /\ transactions = {}
    /\ dupGroups = {}
    /\ syncState = NeverSynced
    /\ mailbox = {}
    /\ now = 1
    /\ env = [sinceFirst |-> FALSE, afterInclusive |-> TRUE]
    /\ opLog = NoLog

InitAmount ==
    /\ \/ aiEntry \in AiEntries /\ regexText = NoMatch
       \/ aiEntry = NoEntry /\ regexText \in RegexAmountTexts
    /\ aiTx = NotRun
    /\ regexTx = NotParsed
    /\ ParseIdle
    /\ StoreIdle
    /\ QueryIdle
    /\ RunIdle
    /\ FeedbackIdle
    /\ RetryIdle
    /\ MigIdle
    /\ FetchIdle

\* toTransaction(ai, email) on the drawn array element
ApplyToTransaction ==
    /\ aiEntry # NoEntry
    /\ aiTx.st = "none"
    /\ aiTx' = ToTransaction(aiEntry)
    /\ UNCHANGED <<aiEntry, regexText, regexTx, parseVars, storeVars, queryVars, run, feedback, retry, mig, fetch>>

\* parse(email) of one of the five regex parsers on the matched amount text
ApplyRegexParser ==
    /\ aiEntry = NoEntry
    /\ regexTx.st = "none"
    /\ \E kind \in VALID_TYPES : regexTx' = RegexParserParse(kind, regexText)
    /\ UNCHANGED <<aiEntry, aiTx, regexText, parseVars, storeVars, queryVars, run, feedback, retry, mig, fetch>>

NextAmount == ApplyToTransaction \/ ApplyRegexParser

SpecAmount == InitAmount /\ [][NextAmount]_vars

----------------------------------------------------------------------------
(* The parsing specification                                               *)

InitParse ==
    /\ \/ email \in Emails /\ aiOut \in AiOutputs /\ mailBatch = <<>>
       \/ email = NoEmail /\ aiOut = NoOut
          /\ mailBatch \in SeqsUpTo(CuratedMail, MaxEmails)
    /\ parseRes = NoRegistryResult
    /\ batchRes = NotParsed
    /\ AmountIdle
    /\ StoreIdle
    /\ QueryIdle
    /\ RunIdle
    /\ FeedbackIdle
    /\ RetryIdle
    /\ MigIdle
    /\ FetchIdle

\* parseEmail(pipeline, email)
ParseEmail ==
    /\ aiOut # NoOut
    /\ parseRes.st = "none"
    /\ parseRes' = RegistryParse(email, aiOut)
    /\ UNCHANGED <<email, aiOut, mailBatch, batchRes, amountVars, storeVars, queryVars, run, feedback, retry, mig, fetch>>

\* parseEmails(pipeline, emails)
ParseEmailsBatch ==
    /\ aiOut = NoOut
    /\ batchRes.st = "none"
    /\ batchRes' = ParseEmails(mailBatch)
    /\ UNCHANGED <<email, aiOut, parseRes, mailBatch, amountVars, storeVars, queryVars, run, feedback, retry, mig, fetch>>

NextParse == ParseEmail \/ ParseEmailsBatch

SpecParse == InitParse /\ [][NextParse]_vars

----------------------------------------------------------------------------
(* The ledger specification: the store under its write operations          *)

MaxBatch == 2

TxIds == {1, 2, 3}
GhostMsg == "mx"       \* a message id no raw email ever has

Shape(e, a, m, d, dir) ==
    [email |-> e, amount |-> a, merchant |-> m, day |-> d, direction |-> dir]

\* what a transaction may say, apart from its id
LedgerShapes ==
    { Shape("m1", 100, "A", 1, "debit"),
      Shape("m1", 100, "A", 1, "credit"),
      Shape("m1", 100, "B", 1, "debit"),
      Shape("m2", 100, "A", 2, "debit"),
      Shape("m3", 100, "A", 3, "debit"),
      Shape(GhostMsg, 100, "A", 1, "debit") }

Row(id, sh) ==
    [id |-> id, email |-> sh.email, amount |-> sh.amount, merchant |-> sh.merchant,
     day |-> sh.day, direction |-> sh.direction, needsReview |-> FALSE,
     category |-> ""]

LedgerRows == {Row(id, sh) : id \in TxIds, sh \in LedgerShapes}

\* rows of the batches handed to insertTransactions
BatchRows ==
    { Row(1, Shape("m1", 100, "A", 1, "debit")),
      Row(2, Shape("m1", 100, "A", 1, "credit")),
      Row(2, Shape("m2", 100, "A", 2, "debit")),
      Row(3, Shape("m3", 100, "A", 3, "debit")),
      Row(3, Shape(GhostMsg, 100, "A", 1, "debit")) }

RawRow(id, day) == [id |-> id, day |-> day]

RawBatches ==
    { <<RawRow("m1", 1), RawRow("m2", 2), RawRow("m3", 3), RawRow("m1", 2)>> }

\* the merchant names remerchant is given
NewMerchants == {"A"}

\* what a store operation never touches
ledgerFrame == <<syncState, mailbox, now, env, amountVars, parseVars, queryVars, run, feedback, retry, mig, fetch>>

\* what the operation did to the tables, read off the step itself
Log(op, ret, threw, repeat, arg, batch) ==
    [op |-> op, ret |-> ret, threw |-> threw, repeat |-> repeat, arg |-> arg,
     rawSame |-> rawEmails' = rawEmails,
     rawKept |-> rawEmails \subseteq rawEmails',
     txSame |-> transactions' = transactions,
     txKept |-> transactions \subseteq transactions',
     txAdded |-> Cardinality(transactions' \ transactions),
     size |-> Len(batch),
     onlyBatch |-> (transactions' \ transactions) \subseteq Range(batch),
     covered |-> \A i \in DOMAIN batch : Collides(transactions', batch[i]),
     groupsAdded |-> Cardinality(dupGroups' \ dupGroups),
     rawAdded |-> Cardinality(rawEmails' \ rawEmails),
     totalAdded |-> syncState'.total - syncState.total,
     txUntouched |-> TRUE,
     addedForMissing |-> TRUE,
     complete |-> ~threw,
     parsed |-> opLog.parsed]

InitLedger ==
    /\ StoreIdle
    /\ AmountIdle
    /\ ParseIdle
    /\ QueryIdle
    /\ RunIdle
    /\ FeedbackIdle
    /\ RetryIdle
    /\ MigIdle
    /\ FetchIdle

\* insertRawEmails(emails)
StoreRawEmails ==
    \E batch \in RawBatches :
        /\ rawEmails' = InsertRawEmails(rawEmails, batch)
        /\ UNCHANGED <<transactions, dupGroups>>
        /\ UNCHANGED ledgerFrame
        /\ opLog' = Log("insertRawEmails", Cardinality(rawEmails' \ rawEmails),
                        FALSE, FALSE, <<>>, <<>>)

\* the log entry of an insert whose outcome is res
InsertLog(op, res, batch) == Log(op, res.n, res.st = "threw", FALSE, <<>>, batch)

\* insertTransaction(tx)
InsertTransactionCall ==
    \E t \in LedgerRows :
        /\ transactions' = InsertRow(rawEmails, transactions, t).txs
        /\ UNCHANGED <<rawEmails, dupGroups>>
        /\ UNCHANGED ledgerFrame
        /\ opLog' = InsertLog("insertTransaction",
                              InsertRow(rawEmails, transactions, t), <<t>>)

\* insertTransactions(txs)
InsertTransactionsCall ==
    \E batch \in SeqsUpTo(BatchRows, MaxBatch) :
        /\ transactions' = InsertTransactions(rawEmails, transactions, batch).txs
        /\ UNCHANGED <<rawEmails, dupGroups>>
        /\ UNCHANGED ledgerFrame
        /\ opLog' = InsertLog("insertTransactions",
                              InsertTransactions(rawEmails, transactions, batch), batch)

\* updateTransactionMerchant(id, merchant): a plain UPDATE, so a clash with
\* the composite key of another row throws and changes nothing
UpdateTransactionMerchantCall ==
    \E t \in transactions, m \in NewMerchants :
        /\ UNCHANGED <<rawEmails, dupGroups>>
        /\ UNCHANGED ledgerFrame
        /\ IF \E u \in transactions \ {t} : TxKey(u) = TxKey([t EXCEPT !.merchant = m])
           THEN /\ UNCHANGED transactions
                /\ opLog' = Log("updateTransactionMerchant", 0, TRUE, FALSE, <<>>, <<>>)
           ELSE /\ transactions' = (transactions \ {t}) \cup {[t EXCEPT !.merchant = m]}
                /\ opLog' = Log("updateTransactionMerchant", 1, FALSE, FALSE, <<>>, <<>>)

\* deleteTransaction(id): duplicate_groups rows reference transactions(id)
DeleteTransactionCall ==
    \E t \in transactions :
        /\ UNCHANGED <<rawEmails, dupGroups>>
        /\ UNCHANGED ledgerFrame
        /\ IF Referenced(dupGroups, t.id)
           THEN /\ UNCHANGED transactions
                /\ opLog' = Log("deleteTransaction", 0, TRUE, FALSE, <<>>, <<>>)
           ELSE /\ transactions' = transactions \ {t}
                /\ opLog' = Log("deleteTransaction", 1, FALSE, FALSE, <<>>, <<>>)

\* resolveReview(id)
ResolveReviewCall ==
    \E t \in transactions :
        /\ t.needsReview
        /\ transactions' = ResolveReview(transactions, t.id)
        /\ UNCHANGED <<rawEmails, dupGroups>>
        /\ UNCHANGED ledgerFrame
        /\ opLog' = Log("resolveReview", 1, FALSE, FALSE, <<>>, <<>>)

\* the log entry of a dedup run; the run is a repeat when the previous
\* operation was a dedup run with the same ids and the same verdicts
DedupLog(res, ids, verdict) ==
    Log("dedup", res.n, FALSE,
        opLog.op = "dedup" /\ opLog.arg = <<ids, verdict>>,
        <<ids, verdict>>, <<>>)

\* findAndFlagDuplicates(cli, txIds)
DedupRun ==
    \E ids \in {{}} \cup {{i} : i \in TxIds} :
        \E order \in Orderings(FindCandidates(transactions, ids)) :
            \E verdict \in [Range(order) -> Verdicts] :
                /\ dupGroups' =
                      FindAndFlagDuplicates(dupGroups, transactions, order, verdict).groups
                /\ transactions' =
                      FindAndFlagDuplicates(dupGroups, transactions, order, verdict).txs
                /\ UNCHANGED rawEmails
                /\ UNCHANGED ledgerFrame
                /\ opLog' = DedupLog(
                      FindAndFlagDuplicates(dupGroups, transactions, order, verdict),
                      ids, verdict)

NextLedger ==
    \/ StoreRawEmails
    \/ InsertTransactionCall
    \/ InsertTransactionsCall
    \/ UpdateTransactionMerchantCall
    \/ DeleteTransactionCall
    \/ ResolveReviewCall
    \/ DedupRun

SpecLedger == InitLedger /\ [][NextLedger]_vars

----------------------------------------------------------------------------
(* The sync specification: mail server, sync, reparse, store writes        *)

MaxDay == 3
LookbackDays == 2      \* defaultLookbackMonths, on the model's clock

SyncMsgs == {"m1", "m2"}
TxIdPool == {1, 2, 3, 4}

\* m1 is an email a regex parser handles, m2 one that is left to the AI
\* fallback, whose answer differs from call to call
AiChoices == {"none", "tx", "throws"}

\* the transaction the pipeline makes of raw email r
ParsedRow(id, r) ==
    [Row(id, Shape(r.id, 100, "A", r.day, "debit")) EXCEPT !.category = "Food"]

\* defaultSinceDate()
DefaultSinceDate == now - LookbackDays

\* the two syncEmails in the tree: lastSync ?? options.since ?? default and
\* options.since ?? lastSync ?? default; 0 stands for null / undefined
AfterDate(since) ==
    IF env.sinceFirst
    THEN IF since # 0 THEN since
         ELSE IF syncState.lastSync # 0 THEN syncState.lastSync
         ELSE DefaultSinceDate
    ELSE IF syncState.lastSync # 0 THEN syncState.lastSync
         ELSE IF since # 0 THEN since
         ELSE DefaultSinceDate

\* listMessageIds(client, afterDate): the query cuts at a day, after:Y/M/D
ListMessageIds(after) ==
    {m \in mailbox : IF env.afterInclusive THEN m.day >= after ELSE m.day > after}

\* messageIds[0]: the server lists the newest message first
Newest(listed) == {m \in listed : \A o \in listed : o.day <= m.day}

\* getAllRawEmails / getRawEmailsByIds as a sequence, one order of the rows
AsSeq(S) == CHOOSE o \in Orderings(S) : TRUE

\* parseEmails on raw emails: ai is what the fallback does with m2, ids gives
\* each email the id its transaction gets
ParsedBatch(raws, ai, ids) ==
    SelectSeq([i \in DOMAIN AsSeq(raws) |-> ParsedRow(ids[AsSeq(raws)[i].id], AsSeq(raws)[i])],
              LAMBDA t : t.email = "m1" \/ ai = "tx")

\* the pipeline throws out of the fallback parser
PipelineThrows(raws, ai) == ai = "throws" /\ "m2" \in RawIds(raws)

\* the ids the parsed transactions get: new ones, in either order
UnusedIds(n) == {i \in TxIdPool : Cardinality({j \in TxIdPool \ {t.id : t \in transactions} : j < i}) < n
                                  /\ i \notin {t.id : t \in transactions}}

FreshIdChoices ==
    {f \in [SyncMsgs -> UnusedIds(2)] : f["m1"] # f["m2"]}

\* what the model answers and the ids the rows get are drawn only when the
\* command gets as far as parsing
AiWhen(parses) == IF parses THEN AiChoices ELSE {"none"}
IdsWhen(parses) == IF parses THEN FreshIdChoices ELSE {[m \in SyncMsgs |-> 0]}

InitSync ==
    /\ rawEmails = {}
    /\ transactions = {}
    /\ dupGroups = {}
    /\ syncState = NeverSynced
    /\ mailbox = {}
    /\ now = 1
    /\ env \in [sinceFirst : BOOLEAN, afterInclusive : BOOLEAN]
    /\ opLog = NoLog
    /\ AmountIdle
    /\ ParseIdle
    /\ QueryIdle
    /\ RunIdle
    /\ FeedbackIdle
    /\ RetryIdle
    /\ MigIdle
    /\ FetchIdle

syncFrame == <<env, amountVars, parseVars, queryVars, run, feedback, retry, mig, fetch>>

\* a message matching the query reaches the mailbox
MailArrives ==
    \E m \in SyncMsgs :
        /\ m \notin RawIds(mailbox)
        /\ mailbox' = mailbox \cup {RawRow(m, now)}
        /\ UNCHANGED <<rawEmails, transactions, dupGroups, syncState, now>>
        /\ UNCHANGED syncFrame
        /\ opLog' = Log("mail", 0, FALSE, FALSE, <<>>, <<>>)

\* a day passes
Tick ==
    /\ now < MaxDay
    /\ now' = now + 1
    /\ UNCHANGED <<rawEmails, transactions, dupGroups, syncState, mailbox, opLog>>
    /\ UNCHANGED syncFrame

\* if (syncResult.newEmailsStored === 0) return
NothingNewReturns(newCount) == newCount = 0

\* a sync state whose count grows by the messages listed
SyncStateCountsListed(listed, first, newCount) ==
    IF listed = {} THEN [syncState EXCEPT !.lastSync = now]
    ELSE [lastSync |-> now, lastMessageId |-> first,
          total |-> syncState.total + Cardinality(listed)]

\* the sync state syncEmails leaves: the timestamp always, the message id and
\* the count only when messages were listed
SyncStateAfter(listed, first, newCount) ==
    IF listed = {} THEN [syncState EXCEPT !.lastSync = now]
    ELSE [lastSync |-> now, lastMessageId |-> first,
          total |-> syncState.total + newCount]

\* parse, categorize, store: what the commands do with the emails toParse
\* (a throw of the pipeline ends the command before anything is stored)
ParseAndStore(raws, txs, toParse, ai, ids) ==
    IF PipelineThrows(toParse, ai) THEN txs
    ELSE InsertTransactions(raws, txs, ParsedBatch(toParse, ai, ids)).txs

\* the log entry of a command that handed the emails toParse to parseEmails:
\* it ran to its end unless the pipeline threw, and the emails have been
\* through the pipeline when it did not
Parsing(entry, toParse, ai) ==
    [entry EXCEPT !.complete = ~PipelineThrows(toParse, ai),
                  !.parsed = IF PipelineThrows(toParse, ai) THEN @
                             ELSE @ \cup RawIds(toParse)]

\* the run repeats the previous one: that one was a sync whose email sync
\* completed, with the same --since, and nothing happened since but time passing
SyncRepeats(since) ==
    /\ opLog.op = "sync"
    /\ ~opLog.threw
    /\ opLog.arg[1] = since

\* syncCommand: fails before touching the store (no credentials, no
\* authentication, listing or fetching failed) ...
SyncCommandFails ==
    /\ UNCHANGED <<rawEmails, transactions, dupGroups, syncState, mailbox, now>>
    /\ UNCHANGED syncFrame
    /\ opLog' = Log("sync", 0, TRUE, FALSE, <<>>, <<>>)

\* ... or runs syncEmails and then parses every raw email and stores
SyncCommand ==
    \E since \in 0..MaxDay :
        \E listed \in {ListMessageIds(AfterDate(since))} :
            \E first \in IF listed = {} THEN {""} ELSE RawIds(Newest(listed)),
               ai \in AiWhen(InsertRawEmails(rawEmails, AsSeq(listed)) # rawEmails),
               ids \in IdsWhen(InsertRawEmails(rawEmails, AsSeq(listed)) # rawEmails) :
                /\ rawEmails' = InsertRawEmails(rawEmails, AsSeq(listed))
                /\ syncState' = SyncStateAfter(listed, first,
                                               Cardinality(rawEmails' \ rawEmails))
                /\ transactions' =
                      IF NothingNewReturns(Cardinality(rawEmails' \ rawEmails))
                      THEN transactions
                      ELSE ParseAndStore(rawEmails', transactions, rawEmails', ai, ids)
                /\ UNCHANGED <<dupGroups, mailbox, now>>
                /\ UNCHANGED syncFrame
                /\ opLog' =
                      IF NothingNewReturns(Cardinality(rawEmails' \ rawEmails))
                      THEN Log("sync", Cardinality(listed), FALSE,
                               SyncRepeats(since), <<since, AfterDate(since)>>, <<>>)
                      ELSE Parsing(Log("sync", Cardinality(listed), FALSE,
                                       SyncRepeats(since), <<since, AfterDate(since)>>, <<>>),
                                   rawEmails', ai)

\* the error of a DELETE that a referencing row forbids
ForeignKeyFailed == "FOREIGN KEY constraint failed"

\* reparseCommand without --missing: deleteAllTransactions, then parse
\* every raw email and store; the DELETE fails on a duplicate_groups row
ReparseCommand ==
    \E ai \in AiWhen(dupGroups = {}), ids \in IdsWhen(dupGroups = {}) :
        /\ rawEmails # {}
        /\ UNCHANGED <<rawEmails, dupGroups, syncState, mailbox, now>>
        /\ UNCHANGED syncFrame
        /\ IF dupGroups # {}
           THEN /\ UNCHANGED transactions
                /\ opLog' = Log("reparse", 0, TRUE, FALSE, <<ForeignKeyFailed>>, <<>>)
           ELSE /\ transactions' = ParseAndStore(rawEmails, {}, rawEmails, ai, ids)
                /\ opLog' = Parsing(Log("reparse", Cardinality(transactions'),
                                        PipelineThrows(rawEmails, ai), FALSE, <<>>, <<>>),
                                    rawEmails, ai)

\* every stored email, with or without transactions
EveryEmail == rawEmails

\* SELECT message_id FROM raw_emails WHERE message_id NOT IN (SELECT ...)
MissingEmails == {r \in rawEmails : \A t \in transactions : t.email # r.id}

\* the ids of the parsed transactions, handed to findAndFlagDuplicates
BatchIds(batch) == {batch[i].id : i \in DOMAIN batch}

\* the log entry of reparse --missing, with what the step did to the rows
\* stored before it and for which emails it added rows
Reparsed(entry) ==
    [entry EXCEPT
        !.txUntouched = \A t \in transactions : \E u \in transactions' :
                            u.id = t.id /\ u.merchant = t.merchant /\ u.category = t.category,
        !.addedForMissing = \A u \in transactions' :
                                u.id \notin {t.id : t \in transactions} =>
                                    /\ u.email \in RawIds(rawEmails)
                                    /\ \A t \in transactions : t.email # u.email]

\* reparseCommand --missing: parse the emails without transactions, store,
\* and run dedup on the parsed ids when something was stored
ReparseMissing ==
    /\ MissingEmails # {}
    /\ \E ai \in AiChoices, ids \in FreshIdChoices, cliAvailable \in BOOLEAN :
            \E stored \in {ParseAndStore(rawEmails, transactions, MissingEmails, ai, ids)} :
                \E order \in Orderings(
                        IF stored # transactions /\ cliAvailable
                        THEN FindCandidates(stored,
                                            BatchIds(ParsedBatch(MissingEmails, ai, ids)))
                        ELSE {}) :
                    \E verdict \in [Range(order) -> Verdicts] :
                        /\ transactions' =
                              FindAndFlagDuplicates(dupGroups, stored, order, verdict).txs
                        /\ dupGroups' =
                              FindAndFlagDuplicates(dupGroups, stored, order, verdict).groups
                        /\ UNCHANGED <<rawEmails, syncState, mailbox, now>>
                        /\ UNCHANGED syncFrame
                        /\ opLog' = Parsing(Reparsed(Log("reparseMissing",
                                                Cardinality(stored \ transactions),
                                                PipelineThrows(MissingEmails, ai),
                                                FALSE, <<>>, <<>>)),
                                            MissingEmails, ai)

\* rows a caller of the store hands to insertTransaction: one for a stored
\* or missing email m1, one for an email that was never stored
SyncWriteRows ==
    {Row(id, sh) : id \in UnusedIds(1),
                   sh \in {Shape("m1", 100, "A", 1, "debit"),
                           Shape(GhostMsg, 100, "A", 1, "debit")}}

\* insertTransaction(tx) by any caller
WriteTransaction ==
    \E t \in SyncWriteRows :
        /\ transactions' = InsertRow(rawEmails, transactions, t).txs
        /\ UNCHANGED <<rawEmails, dupGroups, syncState, mailbox, now>>
        /\ UNCHANGED syncFrame
        /\ opLog' = InsertLog("insertTransaction",
                              InsertRow(rawEmails, transactions, t), <<t>>)

NextSync ==
    \/ MailArrives
    \/ Tick
    \/ SyncCommandFails
    \/ SyncCommand
    \/ ReparseCommand
    \/ ReparseMissing
    \/ WriteTransaction
    \/ DeleteTransactionCall

SpecSync == InitSync /\ [][NextSync]_vars

----------------------------------------------------------------------------
(* The natural-language query engine: the read-only guard and executeQuery *)

RECURSIVE Flatten(_)
Flatten(ss) == IF ss = <<>> THEN <<>> ELSE Head(ss) \o Flatten(Tail(ss))

\* s has p at position i
HasAt(s, i, p) ==
    /\ i + Len(p) - 1 <= Len(s)
    /\ \A k \in DOMAIN p : s[i + k - 1] = p[k]

\* String.prototype.includes
Includes(s, p) == \E i \in 1..Len(s) : HasAt(s, i, p)

\* the rest of s from its first line feed on ([^\n]* consumed)
RECURSIVE DropLine(_)
DropLine(s) ==
    IF s = <<>> \/ Head(s) = "\n" THEN s ELSE DropLine(Tail(s))

\* .replace(/--[^\n]*/g, "")
RECURSIVE StripLineComments(_)
StripLineComments(s) ==
    IF s = <<>> THEN s
    ELSE IF HasAt(s, 1, <<"-", "-">>) THEN StripLineComments(DropLine(s))
    ELSE <<Head(s)>> \o StripLineComments(Tail(s))

\* where the first */ after an opening /* starts, 0 when there is none
CloseIndex(s) ==
    IF \E i \in 3..Len(s) : HasAt(s, i, <<"*", "/">>)
    THEN CHOOSE i \in 3..Len(s) :
            /\ HasAt(s, i, <<"*", "/">>)
            /\ \A j \in 3..(i - 1) : ~HasAt(s, j, <<"*", "/">>)
    ELSE 0

\* .replace(/\/\*[\s\S]*?\*\//g, ""): an unclosed /* stays
RECURSIVE StripBlockComments(_)
StripBlockComments(s) ==
    IF s = <<>> THEN s
    ELSE IF HasAt(s, 1, <<"/", "*">>) /\ CloseIndex(s) > 0
    THEN StripBlockComments(SubSeq(s, CloseIndex(s) + 2, Len(s)))
    ELSE <<Head(s)>> \o StripBlockComments(Tail(s))

\* sql.trim().replace(...).replace(...).trim()
Normalized(s) == Trim(StripBlockComments(StripLineComments(Trim(s))))

\* \w of the regular expressions
IsWordChar(c) ==
    \/ c \in Digits
    \/ c = "_"
    \/ UpperOf(c) # c
    \/ \E l \in {"a", "b", "c", "d", "e", "f", "g", "h", "i", "j", "k", "l", "m",
                 "n", "o", "p", "q", "r", "s", "t", "u", "v", "w", "x", "y", "z"} :
          UpperOf(l) = c

\* the alternatives of the blocked regular expression
BLOCKED ==
    {<<"I", "N", "S", "E", "R", "T">>,
     <<"U", "P", "D", "A", "T", "E">>,
     <<"D", "E", "L", "E", "T", "E">>,
     <<"D", "R", "O", "P">>,
     <<"A", "L", "T", "E", "R">>,
     <<"C", "R", "E", "A", "T", "E">>,
     <<"R", "E", "P", "L", "A", "C", "E">>,
     <<"A", "T", "T", "A", "C", "H">>,
     <<"D", "E", "T", "A", "C", "H">>,
     <<"P", "R", "A", "G", "M", "A">>,
     <<"R", "E", "I", "N", "D", "E", "X">>,
     <<"V", "A", "C", "U", "U", "M">>}

\* \bW\b with the i flag matches at position i of s
WordAt(s, i, w) ==
    /\ i + Len(w) - 1 <= Len(s)
    /\ \A k \in DOMAIN w : UpperOf(s[i + k - 1]) = w[k]
    /\ (i = 1 \/ ~IsWordChar(s[i - 1]))
    /\ (i + Len(w) - 1 = Len(s) \/ ~IsWordChar(s[i + Len(w)]))

\* blocked.test(s)
BlockedTest(s) == \E w \in BLOCKED : \E i \in 1..Len(s) : WordAt(s, i, w)

\* the two tests of isReadOnlyQuery on the normalized text
ReadOnlyNormalized(n) ==
    /\ \/ StartsWithCI(n, <<"S", "E", "L", "E", "C", "T">>)
       \/ StartsWithCI(n, <<"W", "I", "T", "H">>)
    /\ ~BlockedTest(n)

\* isReadOnlyQuery(sql)
IsReadOnlyQuery(s) == ReadOnlyNormalized(Normalized(s))

\* what the SQL engine reads as code: string literals and comments, as its
\* tokenizer delimits them, each replaced by a space
RECURSIVE SqliteCode(_, _)
SqliteCode(s, mode) ==
    IF s = <<>> THEN s
    ELSE IF mode = "code" THEN
        IF HasAt(s, 1, <<"-", "-">>) THEN <<" ">> \o SqliteCode(Tail(Tail(s)), "line")
        ELSE IF HasAt(s, 1, <<"/", "*">>) THEN <<" ">> \o SqliteCode(Tail(Tail(s)), "block")
        ELSE IF Head(s) = "'" THEN <<" ">> \o SqliteCode(Tail(s), "string")
        ELSE <<Head(s)>> \o SqliteCode(Tail(s), "code")
    ELSE IF mode = "line" THEN
        SqliteCode(Tail(s), IF Head(s) = "\n" THEN "code" ELSE "line")
    ELSE IF mode = "block" THEN
        IF HasAt(s, 1, <<"*", "/">>) THEN SqliteCode(Tail(Tail(s)), "code")
        ELSE SqliteCode(Tail(s), "block")
    ELSE SqliteCode(Tail(s), IF Head(s) = "'" THEN "code" ELSE "string")

\* db.prepare(sql).all() can change a table only when the statement has a
\* write verb where the engine reads code
EngineMayWrite(s) == BlockedTest(SqliteCode(s, "code"))

\* what the engine does with a statement: returns rows, fails, or writes
EngineOutcomes(s) ==
    {"rows", "error"} \cup (IF EngineMayWrite(s) THEN {"write"} ELSE {})

\* executes everything
RejectsNothing(s) == FALSE

\* if (!isReadOnlyQuery(sql)) return { rows: [], error: "Query rejected ..." }
Rejects(s) == ~IsReadOnlyQuery(s)

\* executeQuery(sql), the engine answering with outcome
ExecuteQuery(s, outcome) ==
    IF Rejects(s) THEN [st |-> "rejected", reached |-> TRUE, executed |-> FALSE]
    ELSE [st |-> outcome, reached |-> TRUE, executed |-> TRUE]

\* the table after the statement ran: the write of the model is DELETE
TableAfter(txs, res) == IF res.st = "write" THEN {} ELSE txs

MaxSqlFrags == 3

CANNOT_ANSWER == <<"C", "A", "N", "N", "O", "T", "_", "A", "N", "S", "W", "E", "R">>

SqlFrags ==
    {<<"S", "E", "L", "E", "C", "T">>, <<"w", "i", "t", "h">>,
     <<"D", "E", "L", "E", "T", "E">>, <<"d", "r", "o", "p">>,
     <<"U", "p", "d", "a", "t", "e">>,
     <<" ">>, <<"x">>, <<"\n">>, <<"-", "-">>, <<"/", "*">>, <<"*", "/">>,
     <<"'", "-", "-", "'">>, CANNOT_ANSWER}

SqlTexts == {Flatten(fs) : fs \in SeqsUpTo(SqlFrags, MaxSqlFrags)}

InitQuery ==
    /\ sql \in SqlTexts
    /\ queryRes = NoQuery
    /\ rawEmails = {RawRow("m1", 1)}
    /\ transactions = {Row(1, Shape("m1", 100, "A", 1, "debit"))}
    /\ dupGroups = {}
    /\ syncState = NeverSynced
    /\ mailbox = {}
    /\ now = 1
    /\ env = [sinceFirst |-> FALSE, afterInclusive |-> TRUE]
    /\ opLog = NoLog
    /\ AmountIdle
    /\ ParseIdle
    /\ RunIdle
    /\ FeedbackIdle
    /\ RetryIdle
    /\ MigIdle
    /\ FetchIdle

queryFrame == <<sql, rawEmails, dupGroups, syncState, mailbox, now, env,
                amountVars, parseVars, run, feedback, retry, mig, fetch>>

\* executeQuery(sql) called on its own
ExecuteQueryCall ==
    \E outcome \in EngineOutcomes(sql) :
        /\ queryRes.st = "none"
        /\ queryRes' = ExecuteQuery(sql, outcome)
        /\ transactions' = TableAfter(transactions, queryRes')
        /\ UNCHANGED queryFrame
        /\ opLog' = Log("executeQuery", 0, FALSE, FALSE, <<>>, <<>>)

\* answerQuery(cli, question): the model fails to answer, answers
\* CANNOT_ANSWER, or answers a statement that goes to executeQuery
AnswerQuery ==
    \E generated \in BOOLEAN, outcome \in EngineOutcomes(sql) :
        /\ queryRes.st = "none"
        /\ queryRes' =
              IF ~generated
              THEN [st |-> "no_sql", reached |-> FALSE, executed |-> FALSE]
              ELSE IF Includes(sql, CANNOT_ANSWER)
              THEN [st |-> "cannot_answer", reached |-> FALSE, executed |-> FALSE]
              ELSE ExecuteQuery(sql, outcome)
        /\ transactions' = TableAfter(transactions, queryRes')
        /\ UNCHANGED queryFrame
        /\ opLog' = Log("answerQuery", 0, FALSE, FALSE, <<>>, <<>>)

NextQuery == ExecuteQueryCall \/ AnswerQuery

SpecQuery == InitQuery /\ [][NextQuery]_vars

----------------------------------------------------------------------------
(* One run of syncCommand, step by step: every await is a step, and the     *)
(* clock may advance between steps                                         *)

MaxListed == 2
MaxMoment == 3

RunFailures == {"none", "credentials", "authenticate", "list", "fetch", "parse"}

\* what a run can meet: how many messages the listing returns, how many of
\* them are new rows, how many transactions the pipeline parses,
\* --skip-categorize, whether the claude CLI is there, and what fails
RunInputs ==
    {r \in [listed : 0..MaxListed, fresh : 0..MaxListed, parsed : 0..MaxListed,
            skip : BOOLEAN, cli : BOOLEAN, fails : RunFailures] :
        r.fresh <= r.listed}

StartOfRun(r) ==
    [pc |-> "start", stages |-> <<>>, startedListing |-> 0, stamp |-> 0,
     listed |-> r.listed, fresh |-> r.fresh, parsed |-> r.parsed,
     skip |-> r.skip, cli |-> r.cli, fails |-> r.fails]

InitRun ==
    /\ run \in {StartOfRun(r) : r \in RunInputs}
    /\ StoreIdle
    /\ AmountIdle
    /\ ParseIdle
    /\ QueryIdle
    /\ FeedbackIdle
    /\ RetryIdle
    /\ MigIdle
    /\ FetchIdle

runFrame == <<rawEmails, transactions, dupGroups, mailbox, env, opLog,
              amountVars, parseVars, queryVars, feedback, retry, mig, fetch>>

\* the run with one more completed stage, standing at pc
Completed(r, stage, pc) == [r EXCEPT !.stages = Append(@, stage), !.pc = pc]

\* the wall clock moves while the command waits
ClockAdvances ==
    /\ run.pc \notin {"done", "failed"}
    /\ now < MaxMoment
    /\ now' = now + 1
    /\ UNCHANGED <<run, syncState>>
    /\ UNCHANGED runFrame

\* hasCredentials() and authenticate()
RunAuthenticate ==
    /\ run.pc = "start"
    /\ run' = [run EXCEPT !.pc = IF run.fails \in {"credentials", "authenticate"}
                                 THEN "failed" ELSE "list"]
    /\ UNCHANGED <<now, syncState>>
    /\ UNCHANGED runFrame

\* syncEmails up to the call of listMessageIds: the listing request leaves
RunStartListing ==
    /\ run.pc = "list"
    /\ run' = [run EXCEPT !.pc = "listing", !.startedListing = now]
    /\ UNCHANGED <<now, syncState>>
    /\ UNCHANGED runFrame

\* a syncEmails that stores the timestamp as soon as the listing is back
StampAfterListing(r) == [syncState EXCEPT !.lastSync = now]

\* what syncEmails writes between the listing and the fetch: the timestamp
\* when no message was listed, nothing otherwise
StateAfterListing(r) ==
    IF r.listed = 0 THEN [syncState EXCEPT !.lastSync = now] ELSE syncState

\* listMessageIds returned: syncTimestamp = new Date(); with no message the
\* timestamp is stored and syncCommand returns on newEmailsStored === 0
RunListed ==
    /\ run.pc = "listing"
    /\ IF run.fails = "list"
       THEN /\ run' = [run EXCEPT !.pc = "failed"]
            /\ UNCHANGED syncState
       ELSE /\ run' = [Completed(run, "listed", IF run.listed = 0 THEN "done" ELSE "fetch")
                          EXCEPT !.stamp = now]
            /\ syncState' = StateAfterListing(run)
    /\ UNCHANGED now
    /\ UNCHANGED runFrame

\* fetchMessages returned
RunFetched ==
    /\ run.pc = "fetch"
    /\ run' = IF run.fails = "fetch" THEN [run EXCEPT !.pc = "failed"]
              ELSE Completed(run, "fetched", "store")
    /\ UNCHANGED <<now, syncState>>
    /\ UNCHANGED runFrame

\* insertRawEmails, then the three sync_state writes; syncCommand returns
\* when no row was new
RunStoredRaw ==
    /\ run.pc = "store"
    /\ run' = Completed(run, "raw persisted", IF run.fresh = 0 THEN "done" ELSE "parse")
    /\ syncState' = [lastSync |-> run.stamp, lastMessageId |-> "m1",
                     total |-> syncState.total + run.fresh]
    /\ UNCHANGED now
    /\ UNCHANGED runFrame

\* step 3: parseEmails; returns when nothing was parsed
RunParsed ==
    /\ run.pc = "parse"
    /\ run' = IF run.fails = "parse" THEN [run EXCEPT !.pc = "failed"]
              ELSE Completed(run, "parsed",
                             IF run.parsed = 0 THEN "done"
                             ELSE IF run.skip \/ ~run.cli THEN "persist"
                             ELSE "categorize")
    /\ UNCHANGED <<now, syncState>>
    /\ UNCHANGED runFrame

\* step 4: categorizeTransactions on the parsed transactions
RunCategorized ==
    /\ run.pc = "categorize"
    /\ run' = Completed(run, "categorized", "persist")
    /\ UNCHANGED <<now, syncState>>
    /\ UNCHANGED runFrame

\* step 5: insertTransactions
RunPersisted ==
    /\ run.pc = "persist"
    /\ run' = Completed(run, "transactions persisted", "alerts")
    /\ UNCHANGED <<now, syncState>>
    /\ UNCHANGED runFrame

\* steps 6 and 7: review count, generateAlerts, printAlerts
RunAlerted ==
    /\ run.pc = "alerts"
    /\ run' = Completed(run, "alerts generated", "done")
    /\ UNCHANGED <<now, syncState>>
    /\ UNCHANGED runFrame

NextRun ==
    \/ ClockAdvances
    \/ RunAuthenticate
    \/ RunStartListing
    \/ RunListed
    \/ RunFetched
    \/ RunStoredRaw
    \/ RunParsed
    \/ RunCategorized
    \/ RunPersisted
    \/ RunAlerted

SpecRun == InitRun /\ [][NextRun]_vars

----------------------------------------------------------------------------
(* Categorization feedback: recategorize, the review queue's categorize,   *)
(* category_corrections and the prompts of categorization requests         *)

MaxExamples == 2       \* maxExamples / getRecentCorrections(10), scaled down
MaxCorrections == 4

Merchants == {"A", "B"}
FeedbackTxs == {"t1", "t2"}
MerchantOf(t) == IF t = "t1" THEN "A" ELSE "B"

CATEGORIES ==
    {"Food", "Transport", "Shopping", "Bills", "Entertainment", "Health",
     "Education", "Investment", "Transfer", "Other"}

IsValidCategory(c) == c \in CATEGORIES

\* tx.category ?? "(none)"; "" stands for a null category
OldCategory(c) == IF c = "" THEN "(none)" ELSE c

\* ORDER BY id DESC LIMIT n over the row ids S
Largest(S, n) == {i \in S : Cardinality({j \in S : j > i}) < n}

\* getCorrectionsByMerchant(merchant, limit): row ids
GetCorrectionsByMerchant(cs, m, limit) ==
    Largest({i \in DOMAIN cs : cs[i].merchant = m}, limit)

\* getRecentCorrections(limit): row ids
GetRecentCorrections(cs, limit) == Largest(DOMAIN cs, limit)

\* the extras of gatherCorrections: recent rows not among the merchant's
Extras(mc, recent, remaining) == Largest(recent \ mc, remaining)

\* gatherCorrections(merchant)
GatherFrom(cs, mc) ==
    IF Cardinality(mc) >= MaxExamples THEN mc
    ELSE mc \cup Extras(mc, GetRecentCorrections(cs, MaxExamples),
                        MaxExamples - Cardinality(mc))

GatherCorrections(cs, m) == GatherFrom(cs, GetCorrectionsByMerchant(cs, m, MaxExamples))

\* the correction rows categorizeTransactions puts in its first prompt: a
\* single transaction goes through categorizeTransaction, a batch takes the
\* recent corrections
PromptRows(cs, txs) ==
    IF Len(txs) = 1 THEN GatherCorrections(cs, txs[1])
    ELSE GetRecentCorrections(cs, MaxExamples)

\* the request as the history records it: the merchants asked about, the
\* correction rows in the prompt, the rows owed to those merchants
Request(fb, kind, ms, rows) ==
    [kind |-> kind, merchants |-> ms, rows |-> rows,
     owed |-> {fb.owed[m] : m \in ms} \ {0}]

Requested(fb, kind, ms, rows) ==
    [fb EXCEPT !.request = Request(fb, kind, ms, rows),
               !.owed = [m \in Merchants |-> IF m \in ms THEN 0 ELSE fb.owed[m]],
               !.last = [op |-> "request", merchant |-> "", from |-> "", to |-> ""]]

\* updateTransactionCategory(id, category) and insertCategoryCorrection(
\* tx.merchant, oldCategory, category)
Recategorized(fb, op, id, category) ==
    [fb EXCEPT !.category[id] = category,
               !.corrections = Append(@, [merchant |-> MerchantOf(id),
                                          from |-> OldCategory(fb.category[id]),
                                          to |-> category]),
               !.owed[MerchantOf(id)] = Len(fb.corrections) + 1,
               !.last = [op |-> op, merchant |-> MerchantOf(id),
                         from |-> OldCategory(fb.category[id]), to |-> category]]

Refused(fb) == [fb EXCEPT !.last = [op |-> "refused", merchant |-> "", from |-> "", to |-> ""]]

InitFeedback ==
    /\ \E cat \in [FeedbackTxs -> {"", "Food"}] :
          feedback = [corrections |-> <<>>, category |-> cat,
                      owed |-> [m \in Merchants |-> 0],
                      request |-> NoRequest,
                      last |-> [op |-> "none", merchant |-> "", from |-> "", to |-> ""]]
    /\ StoreIdle
    /\ AmountIdle
    /\ ParseIdle
    /\ QueryIdle
    /\ RunIdle
    /\ RetryIdle
    /\ MigIdle
    /\ FetchIdle

feedbackFrame == <<amountVars, parseVars, storeVars, queryVars, run, retry, mig, fetch>>

\* recategorizeCommand(id, category)
RecategorizeCommand ==
    \E id \in FeedbackTxs \cup {"t9"}, category \in {"Food", "Other", "Bogus"} :
        /\ Len(feedback.corrections) < MaxCorrections
        /\ feedback' = IF IsValidCategory(category) /\ id \in FeedbackTxs
                       THEN Recategorized(feedback, "recategorize", id, category)
                       ELSE Refused(feedback)
        /\ UNCHANGED feedbackFrame

\* reviewCommand, action "c <category>" on a queued transaction
ReviewCategorize ==
    \E id \in FeedbackTxs, category \in {"Food", "Other", "Bogus"} :
        /\ Len(feedback.corrections) < MaxCorrections
        /\ feedback' = IF IsValidCategory(category)
                       THEN Recategorized(feedback, "review", id, category)
                       ELSE Refused(feedback)
        /\ UNCHANGED feedbackFrame

\* categorizeTransaction(cli, tx)
CategorizeTransactionCall ==
    \E m \in Merchants :
        /\ feedback' = Requested(feedback, "single", {m},
                                 GatherCorrections(feedback.corrections, m))
        /\ UNCHANGED feedbackFrame

\* categorizeTransactions(cli, txs), txs given by their merchants
CategorizeTransactionsCall ==
    \E txs \in SeqsUpTo(Merchants, 2) \ {<<>>} :
        /\ feedback' = Requested(feedback, IF Len(txs) = 1 THEN "single" ELSE "batch",
                                 Range(txs), PromptRows(feedback.corrections, txs))
        /\ UNCHANGED feedbackFrame

NextFeedback ==
    \/ RecategorizeCommand
    \/ ReviewCategorize
    \/ CategorizeTransactionCall
    \/ CategorizeTransactionsCall

SpecFeedback == InitFeedback /\ [][NextFeedback]_vars

----------------------------------------------------------------------------
(* withRetry: exponential backoff on rate-limit errors                     *)

MaxRetriesBound == 2   \* the largest maxRetries option drawn
InitialDelay == 2      \* initialDelayMs, scaled down
MaxDelay == 4          \* maxDelayMs, scaled down
Jitters == {50, 75, 99}   \* 0.5 + Math.random() * 0.5, in hundredths

\* what fn() can throw: a value that is no object (null, a string), or an
\* object whose code, status and response.status are absent (0) or a number
Errors ==
    [ok : {FALSE}, obj : {TRUE}, code : {0, 429, 500}, status : {0, 429},
     response : {0, 429, 500}]
    \cup {[ok |-> FALSE, obj |-> FALSE, code |-> 0, status |-> 0, response |-> 0]}

Resolved == [ok |-> TRUE, obj |-> FALSE, code |-> 0, status |-> 0, response |-> 0]

RetryAnyError(e) == TRUE

IsRateLimitError(e) ==
    /\ e.obj
    /\ \/ e.code = 429
       \/ e.status = 429
       \/ e.response = 429

RECURSIVE TwoTo(_)
TwoTo(n) == IF n = 0 THEN 1 ELSE 2 * TwoTo(n - 1)

MathMin(a, b) == IF a < b THEN a ELSE b

\* computeDelay(attempt, initialDelayMs, maxDelayMs) with the jitter drawn
ComputeDelay(attempt, jitter) ==
    (MathMin(InitialDelay * TwoTo(attempt), MaxDelay) * jitter) \div 100

LastAttemptEarly(attempt, maxRetries) == attempt + 1 = maxRetries

\* attempt === opts.maxRetries
LastAttempt(attempt, maxRetries) == attempt = maxRetries

Surfaced(r, o) == [r EXCEPT !.pc = "threw", !.surfaced = <<o>>]

\* one pass of the loop body: await fn(), then the catch block
AfterInvoke(r, o, jitter) ==
    IF o.ok THEN [r EXCEPT !.pc = "returned"]
    ELSE IF ~IsRateLimitError(o) THEN Surfaced(r, o)
    ELSE IF LastAttempt(r.attempt, r.maxRetries) THEN Surfaced(r, o)
    ELSE [r EXCEPT !.pc = "sleeping",
                   !.delays = Append(@, ComputeDelay(r.attempt, jitter))]

InitRetry ==
    /\ \E maxRetries \in 0..MaxRetriesBound :
          retry = [pc |-> "call", maxRetries |-> maxRetries, attempt |-> 0,
                   outcomes |-> <<>>, delays |-> <<>>, surfaced |-> <<>>]
    /\ StoreIdle
    /\ AmountIdle
    /\ ParseIdle
    /\ QueryIdle
    /\ RunIdle
    /\ FeedbackIdle
    /\ MigIdle
    /\ FetchIdle

retryFrame == <<amountVars, parseVars, storeVars, queryVars, run, feedback, mig, fetch>>

\* fn() settles and withRetry handles what it did
Invoke ==
    /\ retry.pc = "call"
    /\ \E o \in Errors \cup {Resolved}, jitter \in Jitters :
          retry' = AfterInvoke([retry EXCEPT !.outcomes = Append(@, o)], o, jitter)
    /\ UNCHANGED retryFrame

\* the timer of the backoff delay fires; the loop goes round
TimerFires ==
    /\ retry.pc = "sleeping"
    /\ retry' = [retry EXCEPT !.pc = "call", !.attempt = @ + 1]
    /\ UNCHANGED retryFrame

NextRetry ==
    \/ Invoke
    \/ TimerFires

SpecRetry == InitRetry /\ [][NextRetry]_vars

----------------------------------------------------------------------------
(* Startup migrations: runMigrations over the numbered SQL files           *)

MaxFiles == 3          \* migration ids 1..MaxFiles
StmtsPerFile == 2      \* statements in a migration file

Absent == 0 - 1        \* no file with this id in the directory
CommitFails == StmtsPerFile + 1

\* a file is Absent, or the number of its first failing step: 0 when none
\* fails, k for its k-th statement, CommitFails for the COMMIT
FileKinds == {Absent} \cup 0..CommitFails

\* getAppliedMigrations: the ids in the migrations table
GetAppliedMigrations(recorded) == Range(recorded)

\* what stays of a transaction that is left as it stands
KeepPartial(before, inTx) == inTx

\* conn.run("ROLLBACK")
RollBack(before, inTx) == before

\* conn.exec(sql) up to the failing step, then the INSERT INTO migrations
InTransaction(db, id, fail) ==
    [schema   |-> db.schema \cup
                    {<<id, k>> : k \in {n \in 1..StmtsPerFile : fail = 0 \/ n < fail}},
     recorded |-> IF fail = 0 \/ fail = CommitFails
                  THEN Append(db.recorded, id) ELSE db.recorded]

\* the body of the loop for one file: BEGIN, exec, INSERT, COMMIT, or
\* ROLLBACK and throw; st is [db, applied, threw]
ApplyMigration(st, id, fail) ==
    IF fail = 0
    THEN [db |-> InTransaction(st.db, id, fail),
          applied |-> Append(st.applied, id), threw |-> FALSE]
    ELSE [db |-> RollBack(st.db, InTransaction(st.db, id, fail)),
          applied |-> st.applied, threw |-> TRUE]

\* the loop over the files sorted by id, from id on; applied is the set
\* read before the loop
RECURSIVE MigrationLoop(_, _, _, _)
MigrationLoop(st, id, files, applied) ==
    IF id > MaxFiles \/ st.threw THEN st
    ELSE IF files[id] = Absent \/ id \in applied
    THEN MigrationLoop(st, id + 1, files, applied)
    ELSE MigrationLoop(ApplyMigration(st, id, files[id]), id + 1, files, applied)

\* runMigrations(db, dir)
RunMigrations(m) ==
    MigrationLoop([db |-> [schema |-> m.schema, recorded |-> m.recorded],
                   applied |-> <<>>, threw |-> FALSE],
                  1, m.files, GetAppliedMigrations(m.recorded))

Pending(m) == {id \in 1..MaxFiles : m.files[id] # Absent /\ id \notin Range(m.recorded)}

MigrationLog(m, res) ==
    [ran |-> TRUE, threw |-> res.threw, applied |-> res.applied, pending |-> Pending(m),
     schemaSame |-> res.db.schema = m.schema,
     recordedSame |-> res.db.recorded = m.recorded]

InitMigrate ==
    /\ \E files \in [1..MaxFiles -> FileKinds] :
          mig = [files |-> files, schema |-> {}, recorded |-> <<>>, last |-> NoMigrationRun]
    /\ StoreIdle
    /\ AmountIdle
    /\ ParseIdle
    /\ QueryIdle
    /\ RunIdle
    /\ FeedbackIdle
    /\ RetryIdle
    /\ FetchIdle

migrateFrame == <<amountVars, parseVars, storeVars, queryVars, run, feedback, retry, fetch>>

\* startup: runMigrations()
RunMigrationsCall ==
    /\ mig' = [mig EXCEPT !.schema = RunMigrations(mig).db.schema,
                          !.recorded = RunMigrations(mig).db.recorded,
                          !.last = MigrationLog(mig, RunMigrations(mig))]
    /\ UNCHANGED migrateFrame

\* a release ships a new migration file
AddMigrationFile ==
    \E id \in 1..MaxFiles, kind \in 0..CommitFails :
        /\ mig.files[id] = Absent
        /\ mig' = [mig EXCEPT !.files[id] = kind, !.last = NoMigrationRun]
        /\ UNCHANGED migrateFrame

\* a failing file that was never recorded is repaired
RepairMigrationFile ==
    \E id \in 1..MaxFiles :
        /\ mig.files[id] \notin {Absent, 0}
        /\ id \notin Range(mig.recorded)
        /\ mig' = [mig EXCEPT !.files[id] = 0, !.last = NoMigrationRun]
        /\ UNCHANGED migrateFrame

NextMigrate ==
    \/ RunMigrationsCall
    \/ AddMigrationFile
    \/ RepairMigrationFile

SpecMigrate == InitMigrate /\ [][NextMigrate]_vars

----------------------------------------------------------------------------
(* fetchMessages: batches of withRetry(messages.get) under Promise.all      *)

MaxIds == 4            \* the most message ids handed to fetchMessages
MaxBatchSize == 2      \* the largest batchSize drawn
FetchRetries == 1      \* maxRetries of withRetry, scaled down

\* messageIds.slice(i, i + batchSize), as positions in messageIds
Slice(f) == {k \in 1..f.n : f.i < k /\ k <= f.i + f.batchSize}

\* batch.map((id) => withRetry(...)): every request of the batch starts
Issue(f) ==
    [f EXCEPT !.pc = "awaiting",
              !.req = [k \in 1..f.n |-> IF k \in Slice(f) THEN "in flight" ELSE f.req[k]],
              !.batches = Append(@, Slice(f))]

\* the for loop at its test: issue the next batch or return the results
LoopTest(f) == IF f.i < f.n THEN Issue(f) ELSE [f EXCEPT !.pc = "returned"]

\* some promise of the batch is fulfilled
AnyFulfilled(f) == \E k \in Slice(f) : f.req[k] = "done"

\* Promise.all(promises) is fulfilled
AllFulfilled(f) == \A k \in Slice(f) : f.req[k] = "done"

\* Promise.all(promises) is rejected
SomeRejected(f) == \E k \in Slice(f) : f.req[k] = "failed"

\* withRetry around one messages.get, on what the call did
RequestAfter(f, k, outcome) ==
    IF outcome = "ok" THEN [f EXCEPT !.req[k] = "done"]
    ELSE IF outcome = "fatal" THEN [f EXCEPT !.req[k] = "failed"]
    ELSE IF LastAttempt(f.attempt[k], FetchRetries) THEN [f EXCEPT !.req[k] = "failed"]
    ELSE [f EXCEPT !.req[k] = "sleeping"]

InitFetch ==
    /\ \E n \in 0..MaxIds, batchSize \in 1..MaxBatchSize :
          fetch = [pc |-> "start", n |-> n, batchSize |-> batchSize, i |-> 0,
                   req |-> [k \in 1..n |-> "not issued"],
                   attempt |-> [k \in 1..n |-> 0],
                   batches |-> <<>>, results |-> 0]
    /\ StoreIdle
    /\ AmountIdle
    /\ ParseIdle
    /\ QueryIdle
    /\ RunIdle
    /\ FeedbackIdle
    /\ RetryIdle
    /\ MigIdle

fetchFrame == <<amountVars, parseVars, storeVars, queryVars, run, feedback, retry, mig>>

\* fetchMessages(client, messageIds, batchSize) up to its first await
FetchMessagesCall ==
    /\ fetch.pc = "start"
    /\ fetch' = LoopTest(fetch)
    /\ UNCHANGED fetchFrame

\* one messages.get settles and its withRetry handles the outcome
RequestSettles ==
    \E k \in 1..fetch.n, outcome \in {"ok", "rate limit", "fatal"} :
        /\ fetch.req[k] = "in flight"
        /\ fetch' = RequestAfter(fetch, k, outcome)
        /\ UNCHANGED fetchFrame

\* the backoff timer of one request fires and the request is sent again
RequestRetried ==
    \E k \in 1..fetch.n :
        /\ fetch.req[k] = "sleeping"
        /\ fetch' = [fetch EXCEPT !.req[k] = "in flight", !.attempt[k] = @ + 1]
        /\ UNCHANGED fetchFrame

\* await Promise.all resumes with the responses: push them, next batch
BatchResolved ==
    /\ fetch.pc = "awaiting"
    /\ AllFulfilled(fetch)
    /\ fetch' = LoopTest([fetch EXCEPT !.i = @ + fetch.batchSize,
                                       !.results = @ + Cardinality(Slice(fetch))])
    /\ UNCHANGED fetchFrame

\* await Promise.all throws: fetchMessages ends, requests still going on
BatchRejected ==
    /\ fetch.pc = "awaiting"
    /\ SomeRejected(fetch)
    /\ fetch' = [fetch EXCEPT !.pc = "threw"]
    /\ UNCHANGED fetchFrame

NextFetch ==
    \/ FetchMessagesCall
    \/ RequestSettles
    \/ RequestRetried
    \/ BatchResolved
    \/ BatchRejected

SpecFetch == InitFetch /\ [][NextFetch]_vars

----------------------------------------------------------------------------
(* Claims about the parsing pipeline                                       *)

ClaimedButEmpty ==
    /\ \E p \in Range(Parsers) : CanParse(p, email) /\ ParserParse(p, email).txs = <<>>
    /\ \A p \in Range(Parsers) : CanParse(p, email) => ParserParse(p, email).txs = <<>>

FallbackAnswersWithList ==
    /\ AiFallbackParse(aiOut).st = "list"
    /\ Len(AiFallbackParse(aiOut).txs) > 0

\* C1: when a registered parser claims the email but returns null, no
\* registered parser returns a non-empty list and the fallback returns a
\* non-empty list, ParserRegistry.parse returns exactly the fallback's list.
C1_FallthroughToFallback ==
    (parseRes.st # "none" /\ ClaimedButEmpty /\ FallbackAnswersWithList)
        => /\ parseRes.st = "returned"
           /\ parseRes.txs = AiFallbackParse(aiOut).txs

C1_Witness ==
    /\ parseRes.st = "returned"
    /\ ClaimedButEmpty
    /\ FallbackAnswersWithList
    /\ Len(parseRes.invoked) >= 2
    /\ parseRes.invoked[Len(parseRes.invoked)] = "ai"
    /\ parseRes.txs # <<>>

\* C2: an exception inside a parser is contained: neither
\* ParserRegistry.parse nor parseEmails ever ends by throwing.
C2_ParserExceptionContained ==
    /\ parseRes.st # "threw"
    /\ batchRes.st # "threw"

----------------------------------------------------------------------------
(* Claims about the store                                                  *)

KeyUnique ==
    \A t, u \in transactions : (TxKey(t) = TxKey(u) \/ t.id = u.id) => t = u

InsertOps == {"insertTransaction", "insertTransactions"}

\* C4: whatever sequence of insertTransaction and insertTransactions calls
\* ran, no two stored transactions share (email_message_id, amount,
\* merchant, date); an insert keeps every stored row as it was, adds rows of
\* its batch only, returns the number of rows it added, and drops a row only
\* when it collides with a stored one.  A batch that throws stores nothing.
C4_CompositeKeyUnique ==
    /\ KeyUnique
    /\ opLog.op \in InsertOps =>
          /\ opLog.txKept
          /\ opLog.onlyBatch
          /\ opLog.threw => opLog.txSame
          /\ ~opLog.threw => opLog.ret = opLog.txAdded /\ opLog.covered

C4_Witness ==
    /\ opLog.op = "insertTransactions"
    /\ ~opLog.threw
    /\ opLog.size >= 2
    /\ opLog.ret >= 1
    /\ opLog.ret < opLog.size
    /\ Cardinality(transactions) >= 2

\* C8: a dedup run that directly follows a dedup run over the same stored
\* data, with the same ids and the same verdict for every pair, adds no
\* duplicate-group record.
C8_DedupIdempotent ==
    (opLog.op = "dedup" /\ opLog.repeat) => opLog.groupsAdded = 0

C8_Witness ==
    /\ opLog.op = "dedup"
    /\ opLog.repeat
    /\ dupGroups # {}
    /\ \E p \in DOMAIN opLog.arg[2] : opLog.arg[2][p] = "dup"

\* C9: every duplicate-group record has kept_transaction_id different from
\* duplicate_transaction_id, and no transaction id is the
\* duplicate_transaction_id of two records.
C9_GroupsWellFormed ==
    /\ \A g \in dupGroups : g.kept # g.dup
    /\ \A g, h \in dupGroups : g.dup = h.dup => g = h

C9_Witness ==
    /\ Cardinality(dupGroups) >= 1
    /\ opLog.op = "dedup"
    /\ opLog.ret >= 2
    /\ opLog.groupsAdded = 1

----------------------------------------------------------------------------
(* Claims about ingestion                                                  *)

\* C3: running sync twice over an unchanged mailbox adds no raw email and no
\* transaction: after the second run the stored raw emails and the stored
\* transactions are the sets the first run left.
C3_SyncIdempotent ==
    (opLog.op = "sync" /\ opLog.repeat) => (opLog.rawSame /\ opLog.txSame)

\* C5: in every store state reached through sync, reparse and store writes,
\* every stored transaction has a stored raw email with its message id, and
\* no operation removes a raw email.
C5_TransactionHasRawEmail ==
    /\ \A t \in transactions : t.email \in RawIds(rawEmails)
    /\ opLog.rawKept

\* an insert for an email that is not stored was refused, while transactions
\* of stored emails are there
C5_Witness ==
    /\ opLog.op = "insertTransaction"
    /\ opLog.threw
    /\ opLog.txSame
    /\ transactions # {}

----------------------------------------------------------------------------
(* Claims about the query engine                                           *)

\* C6: the read-only guard rejects every input that contains, as a whole
\* word and in any casing, one of the twelve write keywords.
C6_GuardRejectsKeywords == BlockedTest(sql) => ~IsReadOnlyQuery(sql)

\* C7: a statement the guard rejects is never executed: the caller gets the
\* rejection and no table changes.
C7_RejectedNeverExecuted ==
    ~IsReadOnlyQuery(sql) =>
        /\ ~queryRes.executed
        /\ queryRes.reached => queryRes.st = "rejected"
        /\ opLog.txSame /\ opLog.rawSame /\ opLog.groupsAdded = 0

\* a statement the engine would have run as a write came back rejected,
\* the table still holding its row
C7_Witness ==
    /\ queryRes.st = "rejected"
    /\ EngineMayWrite(sql)
    /\ transactions # {}

----------------------------------------------------------------------------
(* Claims about amounts                                                    *)

PositiveFinite(x) == x.k = "fin" /\ x.v > 0

\* C10: every transaction a parser produces (regex parsers and AI fallback,
\* numeric and string amounts) has a finite amount strictly greater than 0.
C10_AmountPositiveFinite ==
    /\ aiTx.st = "tx" => PositiveFinite(aiTx.tx.amount)
    /\ \A i \in DOMAIN regexTx.txs : PositiveFinite(regexTx.txs[i].amount)

----------------------------------------------------------------------------
(* Claims about AI confidence                                              *)

\* C11: every transaction with source = ai leaves toTransaction with a
\* confidence in [0, 1] and with needs_review true exactly when the
\* confidence is below 0.7, whatever confidence the model returned (absent,
\* not a number, out of range, or infinite).
C11_AiConfidenceClamped ==
    (aiTx.st = "tx" /\ aiTx.tx.source = "ai") =>
        /\ aiTx.tx.confidence >= 0
        /\ aiTx.tx.confidence <= 100
        /\ aiTx.tx.needsReview <=> (aiTx.tx.confidence < ReviewThresholdPct)

\* the model returned an infinite confidence and the transaction came out
\* with confidence 1 and no review flag
C11_Witness ==
    /\ aiTx.st = "tx"
    /\ aiEntry.confidence.t = "num"
    /\ aiEntry.confidence.c = PosInf
    /\ aiTx.tx.confidence = 100
    /\ ~aiTx.tx.needsReview

----------------------------------------------------------------------------
(* Claims about one sync run                                               *)

\* the stages in the order the specification gives them
StageOrder ==
    <<"listed", "fetched", "raw persisted", "parsed", "transactions persisted",
      "categorized", "deduplicated", "alerts generated">>

Rank(stage) == CHOOSE i \in DOMAIN StageOrder : StageOrder[i] = stage

\* C12: within one sync run the stages complete in the order listed,
\* fetched, raw persisted, parsed, transactions persisted, categorized,
\* deduplicated, alerts generated: transactions are persisted before they
\* are categorized, and alerts are generated only after deduplication.
C12_StagesInOrder ==
    /\ \A i, j \in DOMAIN run.stages :
          i < j => Rank(run.stages[i]) < Rank(run.stages[j])
    /\ "alerts generated" \in Range(run.stages) =>
          "deduplicated" \in Range(run.stages)

\* C13: after a completed sync run the stored last_sync_timestamp is the
\* moment the run started listing messages, a time no later than the start
\* of the listing request.
C13_TimestampIsListingStart ==
    (run.pc = "done" /\ "listed" \in Range(run.stages)) =>
        syncState.lastSync <= run.startedListing

----------------------------------------------------------------------------
(* Claims about the sync state                                             *)

\* C14: across sync runs, failed or not, and everything else that touches
\* the store, total_synced_count never decreases, and a completed sync
\* raises it by exactly the number of raw-email rows that run newly stored
\* (rows ignored on a message_id conflict are not counted).
C14_TotalCountsNewRows ==
    /\ opLog.totalAdded >= 0
    /\ opLog.op = "sync" => opLog.totalAdded = opLog.rawAdded

\* a sync listed two messages, one of them stored before: one row is new
\* and the count went up by one
C14_Witness ==
    /\ opLog.op = "sync"
    /\ ~opLog.threw
    /\ opLog.ret = 2
    /\ opLog.rawAdded = 1
    /\ opLog.totalAdded = 1
    /\ syncState.total = 2

\* C20: a sync invoked with a caller-supplied since date lists from that
\* date even when a last_sync_timestamp is stored: options.since comes
\* before last_sync_timestamp, which comes before the default lookback.
C20_SinceTakesPrecedence ==
    (opLog.op = "sync" /\ ~opLog.threw /\ opLog.arg[1] # 0) =>
        opLog.arg[2] = opLog.arg[1]

----------------------------------------------------------------------------
(* Claims about categorization feedback                                    *)

\* C15: after a recategorization (by the recategorize command or in the
\* review queue) a correction row exists for (the merchant, the category
\* before the change, the new category), and the next categorization
\* request for that merchant, single or batch, has that row in its prompt.
C15_CorrectionReachesNextPrompt ==
    /\ feedback.last.op \in {"recategorize", "review"} =>
          /\ feedback.corrections # <<>>
          /\ feedback.corrections[Len(feedback.corrections)] =
                [merchant |-> feedback.last.merchant,
                 from |-> feedback.last.from, to |-> feedback.last.to]
    /\ feedback.request.owed \subseteq feedback.request.rows

----------------------------------------------------------------------------
(* Claims about withRetry                                                  *)

\* a failure carrying 429 as its code, its status or its response's status
RateLimited(o) == ~o.ok /\ 429 \in {o.code, o.status, o.response}

\* C16: withRetry invokes the operation again only after a failure that is
\* a rate-limit error (429 as code, status or response.status); the first
\* failure that is not one is surfaced at once: it is the error thrown, no
\* delay follows it and no further invocation.
C16_RetriesOnlyRateLimit ==
    /\ \A i \in 1..(Len(retry.outcomes) - 1) : RateLimited(retry.outcomes[i])
    /\ Len(retry.delays) <= Len(retry.outcomes)
    /\ \A i \in 1..Len(retry.outcomes) :
          (~retry.outcomes[i].ok /\ ~RateLimited(retry.outcomes[i])) =>
              /\ i = Len(retry.outcomes)
              /\ retry.pc = "threw"
              /\ retry.surfaced = <<retry.outcomes[i]>>
              /\ Len(retry.delays) = i - 1

C16_Witness ==
    /\ retry.pc = "threw"
    /\ Len(retry.outcomes) = 2
    /\ retry.maxRetries = 2
    /\ retry.outcomes[1].response = 429
    /\ retry.outcomes[1].code = 500
    /\ retry.outcomes[2].code = 500
    /\ ~RateLimited(retry.outcomes[2])
    /\ Len(retry.delays) = 1

\* C17: when every invocation fails with a rate-limit error, withRetry
\* invokes the operation exactly maxRetries + 1 times and then throws the
\* error of the last invocation; it never invokes it more often than that.
C17_BoundedRetries ==
    /\ Len(retry.outcomes) <= retry.maxRetries + 1
    /\ (retry.pc \in {"threw", "returned"} /\
        \A i \in 1..Len(retry.outcomes) : RateLimited(retry.outcomes[i])) =>
          /\ retry.pc = "threw"
          /\ Len(retry.outcomes) = retry.maxRetries + 1
          /\ retry.surfaced = <<retry.outcomes[Len(retry.outcomes)]>>
          /\ Len(retry.delays) = retry.maxRetries

C17_Witness ==
    /\ retry.pc = "threw"
    /\ retry.maxRetries = 2
    /\ Len(retry.outcomes) = 3
    /\ \A i \in 1..3 : RateLimited(retry.outcomes[i])
    /\ retry.outcomes[3] # retry.outcomes[2]
    /\ retry.delays = <<1, 3>>

----------------------------------------------------------------------------
(* Claims about the dedup orchestrator and the review queue                *)

\* C18: a dedup run marks, flags and counts a confirmed pair only when no
\* group record exists yet for that duplicate, so the counter a run returns
\* equals the number of group records the run created.
C18_CounterCountsGroups ==
    opLog.op = "dedup" => opLog.ret = opLog.groupsAdded

\* C19: for every duplicate-group record, the transaction it names as the
\* duplicate has needs_review = true.
C19_DuplicateNeedsReview ==
    \A g \in dupGroups : \A t \in transactions : t.id = g.dup => t.needsReview

----------------------------------------------------------------------------
(* Claims about the external model process                                 *)

\* C21: whatever the external model process produces (a non-zero exit, an
\* empty output, text that is no JSON, JSON of the wrong shape, fields of
\* the wrong type), no exception reaches the caller: runJson returns null
\* for the failures and never throws, and the AI fallback parser's parse
\* returns null or a list of transactions.
C21_ModelOutputNeverThrows ==
    parseRes.st # "none" =>
        /\ RunJson(aiOut).st # "threw"
        /\ aiOut.kind \in {"spawn_throws", "exit_nonzero", "empty", "not_json"}
              => RunJson(aiOut).st = "null"
        /\ "ai" \in Range(parseRes.invoked) => AiFallbackParse(aiOut).st # "threw"

----------------------------------------------------------------------------
(* Claims about the order of the registry                                  *)

\* parser number i claims the email and parses a non-empty list from it
Wins(i) ==
    /\ CanParse(Parsers[i], email)
    /\ ParserParse(Parsers[i], email).st = "list"
    /\ Len(ParserParse(Parsers[i], email).txs) > 0

FirstWinner == CHOOSE i \in DOMAIN Parsers : Wins(i) /\ \A j \in 1..(i - 1) : ~Wins(j)

----------------------------------------------------------------------------
(* Claims about startup migrations                                         *)

TimesRecorded(id) == Cardinality({i \in DOMAIN mig.recorded : mig.recorded[i] = id})

StmtsApplied(id) == {k \in 1..StmtsPerFile : <<id, k>> \in mig.schema}

Ascending(seq) == \A i, j \in DOMAIN seq : i < j => seq[i] < seq[j]

\* C23: after any sequence of migration runs, aborted ones included, every
\* migration file is either fully applied and recorded exactly once, or not
\* applied at all and not recorded; a run applies only files that were not
\* recorded, in ascending id order, all of them unless it throws, and
\* changes nothing when none is pending.
C23_MigrationsAtomic ==
    /\ \A id \in 1..MaxFiles :
          \/ TimesRecorded(id) = 1 /\ StmtsApplied(id) = 1..StmtsPerFile
          \/ TimesRecorded(id) = 0 /\ StmtsApplied(id) = {}
    /\ mig.last.ran =>
          /\ Range(mig.last.applied) \subseteq mig.last.pending
          /\ Ascending(mig.last.applied)
          /\ ~mig.last.threw => Range(mig.last.applied) = mig.last.pending
          /\ mig.last.pending = {} =>
                ~mig.last.threw /\ mig.last.schemaSame /\ mig.last.recordedSame

C23_Witness ==
    /\ mig.last.ran
    /\ mig.last.threw
    /\ mig.last.applied = <<1>>
    /\ mig.files[2] = 2
    /\ mig.files[3] = 0
    /\ mig.recorded = <<3, 1>>
    /\ StmtsApplied(2) = {}

----------------------------------------------------------------------------
(* Claims about fetchMessages                                              *)

\* the requests that are issued and not completed, retries included
Unfinished == {k \in 1..fetch.n : fetch.req[k] \in {"in flight", "sleeping"}}

Issued == {k \in 1..fetch.n : fetch.req[k] # "not issued"}

\* C24: message bodies are requested in consecutive batches of at most
\* batchSize; when a request of a batch is issued every request of the
\* batches before it has completed, retries included, so at most batchSize
\* fetches are under way at any time.
C24_BatchByBatch ==
    /\ \A b \in DOMAIN fetch.batches :
          /\ Cardinality(fetch.batches[b]) <= fetch.batchSize
          /\ fetch.batches[b] =
                {k \in 1..fetch.n : (b - 1) * fetch.batchSize < k /\ k <= b * fetch.batchSize}
          /\ b < Len(fetch.batches) => \A k \in fetch.batches[b] : fetch.req[k] = "done"
    /\ Issued = UNION Range(fetch.batches)
    /\ Cardinality(Unfinished) <= fetch.batchSize

C24_Witness ==
    /\ fetch.n = 4
    /\ fetch.batchSize = 2
    /\ Len(fetch.batches) = 2
    /\ fetch.attempt[1] = 1
    /\ fetch.req[3] = "sleeping"
    /\ fetch.req[4] = "in flight"

----------------------------------------------------------------------------
(* Claims about reparse                                                    *)

\* C25: reparse --missing never deletes a transaction that was stored
\* before the call and never changes its category or merchant; it leaves
\* the raw emails alone and adds transactions only for raw emails that had
\* no transaction before the call.
C25_ReparseMissingNonDestructive ==
    opLog.op = "reparseMissing" =>
        /\ opLog.txUntouched
        /\ opLog.addedForMissing
        /\ opLog.rawSame

C25_Witness ==
    /\ opLog.op = "reparseMissing"
    /\ ~opLog.threw
    /\ opLog.txAdded = 1
    /\ opLog.groupsAdded = 1
    /\ \E t \in transactions : t.category = ""
    /\ \E t \in transactions : t.needsReview
    /\ \E t \in transactions : t.category = "Food"

----------------------------------------------------------------------------
(* Claims about what a sync run leaves behind                              *)

\* C27: after a sync command that ran to its end without error, every raw
\* email in the store has been through the parsing pipeline at least once,
\* in this run or in an earlier command whose pipeline did not throw; this
\* holds for emails an earlier run stored before it ended without storing
\* their transactions, even when this run stores no new email.
C27_EveryRawEmailParsed ==
    (opLog.op = "sync" /\ ~opLog.threw /\ opLog.complete) =>
        RawIds(rawEmails) \subseteq opLog.parsed


\* C26: when the listing or a fetch of a sync run fails, the run has
\* written nothing: no raw email is stored and last_sync_timestamp,
\* last_message_id and total_synced_count are what they were before the run.
C26_FailedRunWritesNothing ==
    (run.pc = "failed" /\ run.fails \in {"list", "fetch"}) =>
        /\ syncState = NeverSynced
        /\ "raw persisted" \notin Range(run.stages)

C26_Witness ==
    /\ run.pc = "failed"
    /\ run.fails = "fetch"
    /\ run.listed = 2
    /\ run.stages = <<"listed">>
    /\ run.stamp = 2
    /\ now = 3
    /\ syncState = NeverSynced

----------------------------------------------------------------------------
(* Claims about executed statements                                        *)

\* C28: a statement that passes the read-only guard and is executed by
\* executeQuery leaves every table as it was, whatever text the model
\* produced.
C28_ExecutedChangesNothing ==
    queryRes.executed =>
        /\ opLog.txSame
        /\ opLog.rawSame
        /\ opLog.groupsAdded = 0

----------------------------------------------------------------------------
(* Claims about duplicate groups and the full reparse                      *)

\* C29: no transaction is the kept transaction of one duplicate-group
\* record and the duplicate of another: duplicates never chain.
C29_DuplicatesNeverChain ==
    \A g, h \in dupGroups : g.kept # h.dup

\* C30: a full reparse never ends on a foreign-key or other storage error,
\* also when duplicate-group records reference stored transactions.
C30_FullReparseNoStorageError ==
    opLog.op = "reparse" => opLog.arg # <<ForeignKeyFailed>>

====
